---- MODULE Spec2Model ----
(***************************************************************************)
(* RenderAPI: the request-execution pipeline of pkg/client                 *)
(* (Client.ExecuteTemplateJSON, doWithRetry, the response cache) together  *)
(* with the hook chain of pkg/hooks it threads requests and responses      *)
(* through.                                                                *)
(*                                                                         *)
(* Every ExecuteTemplateJSON call is a process p \in Calls with a program  *)
(* counter pc[p]:                                                          *)
(*   idle -> (Begin) -> cache -> (CacheLookup) -> send                     *)
(*        -> (Send | RetryAttempt ...) -> after -> (AfterHooks) -> done    *)
(* Texts (bodies, URLs, header values) are strings; a JSON text such as    *)
(* {"id":1} is written {id:1}, the quote characters left out.              *)
(* An error is its message, a sequence of words, outermost wrapper first;  *)
(* the nil error is the empty sequence.                                    *)
(***************************************************************************)
EXTENDS Integers, Sequences, FiniteSets, TLC

VARIABLES
    headers,     \* Client.headers: default request headers
    beforeHook,  \* Client.beforeHook: registered before-hooks, in order
    afterHook,   \* Client.afterHook: registered after-hooks, in order
    cache,       \* Client.cache: fingerprint -> CachedResponse
    hdr,         \* heap of http.Header maps, named by the call whose network response made it
    now,         \* the wall clock (seconds)
    pc,          \* position of each call in ExecuteTemplateJSON
    tmplDef,     \* the parsed template definition of each call
    data,        \* the data argument of each call
    req,         \* the *http.Request of each call
    resp,        \* the http.Response struct each call holds
    err,         \* the error each call returns
    retry,       \* locals of doWithRetry: attempt, delay, maxAttempts, backoffFactor
    log,         \* history: what each call did, in order
    stored,      \* history: what saveToCache was given when it filled a fingerprint
    templates,   \* Engine.templates: name -> the parsed template
    funcs,       \* Engine.funcs: the names in the function map
    renderCache, \* Engine.cache: name_pointer -> rendered bytes
    heap,        \* the data objects callers hold: address -> map
    trace,       \* history: the calls made on the engine and on isRetryableError
    bg           \* the goroutines BeforeAsync and AfterAsync started, in order

clientVars == <<headers, beforeHook, afterHook, cache, hdr, now, pc, tmplDef, data,
                req, resp, err, retry, log, stored>>

engineVars == <<templates, funcs, renderCache, heap, trace>>

asyncVars == <<bg>>

vars == <<clientVars, engineVars, asyncVars>>

(***************************************************************************)
(* Bounds                                                                  *)
(***************************************************************************)
MaxCalls == 2
MaxTime == 2
MaxHooks == 2
MaxTries == 3
MaxDelay == 2
MaxFactor == 2
MaxWords == 3
MaxOps == 4
MaxMembers == 2

Calls == 1..MaxCalls

NoErr == << >>
None == [none |-> TRUE]

(***************************************************************************)
(* Headers: an http.Header or header map as a function name -> value       *)
(***************************************************************************)
HdrCT == "Content-Type"
NoHeaders == << >>

HeaderGet(h, k) == IF k \in DOMAIN h THEN h[k] ELSE ""

HeaderSet(h, k, v) == [x \in (DOMAIN h) \cup {k} |-> IF x = k THEN v ELSE h[x]]

(***************************************************************************)
(* text/template: a template is pre {{.field}} post, or a literal when     *)
(* field is empty; a key missing from the data map prints <no value>       *)
(***************************************************************************)
Execute(tpl, d) ==
    IF tpl.field = "" THEN tpl.pre \o tpl.post
    ELSE tpl.pre \o (IF tpl.field \in DOMAIN d THEN d[tpl.field] ELSE "<no value>")
                 \o tpl.post

Lit(s) == [pre |-> s, field |-> "", post |-> ""]

\* json.Unmarshal accepts the text (as an object, for the hooks that need one)
JSONObjects == {"{id:1}", "{id:2}", "{id: 1}"}

ValidJSON(text) == text \in JSONObjects \cup {"null"}

\* json.Marshal(json.Unmarshal(text)): the compact encoding
Reencode(text) == IF text = "{id: 1}" THEN "{id:1}" ELSE text

(***************************************************************************)
(* pkg/hooks: the hooks a template definition can name, and the hooks a    *)
(* host registers on the client.  A script or a command is a black box     *)
(* named by what it does:                                                  *)
(*   setA    sets header X-A                                               *)
(*   copyAB  sets header X-B to the value of header X-A                    *)
(*   throw / exit1 / fail   fails                                          *)
(*   emit    prints a replacement body                                     *)
(***************************************************************************)
HdrA == "X-A"
HdrB == "X-B"

\* a factory that builds a script hook for every type it does not know
CreateHookFromDefinitionAnyType(def) ==
    IF def.Type = "command"
    THEN [err |-> NoErr, hook |-> [impl |-> "CommandHook", run |-> def.Command,
                                   IsAsync |-> def.Async, Timeout |-> def.Timeout]]
    ELSE [err |-> NoErr, hook |-> [impl |-> "JSHook", run |-> def.Script,
                                   IsAsync |-> def.Async, Timeout |-> def.Timeout]]

\* CreateHookFromDefinition: "js" and "command" build a JSHook and a CommandHook
CreateHookFromDefinition(def) ==
    CASE def.Type = "js" ->
           [err |-> NoErr, hook |-> [impl |-> "JSHook", run |-> def.Script,
                                     IsAsync |-> def.Async, Timeout |-> def.Timeout]]
      [] def.Type = "command" ->
           [err |-> NoErr, hook |-> [impl |-> "CommandHook", run |-> def.Command,
                                     IsAsync |-> def.Async, Timeout |-> def.Timeout]]
      [] def.Type = "function" ->
           [err |-> <<"unimplemented hook type">>, hook |-> None]
      [] OTHER ->
           [err |-> <<"unknown hook type">>, hook |-> None]

\* hook.(hooks.BeforeRequestHook): JSHook and CommandHook have Before and BeforeAsync
IsBeforeRequestHook(hook) == hook.impl \in {"JSHook", "CommandHook"}

\* hook.(hooks.AfterResponseHook): only JSResponseHook, CommandResponseHook and the
\* host-registered hooks have After and AfterAsync
IsAfterResponseHook(hook) == hook.impl \in {"JSResponseHook", "CommandResponseHook"}

\* the time a script runs for: "sleep" is the script that outlasts a short timeout
SleepTime == 3
Takes(script) == IF script = "sleep" THEN SleepTime ELSE 0

ErrTimeout == <<"script", "execution", "timed", "out">>

\* a request made without a body: req.Body == nil
NilBody == "<nil>"

\* JSHook.executeScript, processRequestWithJS, handleProcessedRequest
executeScript(h, r) ==
    IF h.run \in {"syntax", "throwAtLoad"}
    THEN [req |-> r, err |-> <<"run script failed">>]
    ELSE IF r.Body = NilBody
    THEN [req |-> r, err |-> NoErr]
    ELSE IF ~ValidJSON(r.Body)
    THEN [req |-> r, err |-> <<"parse request body failed">>]
    ELSE IF h.run = "nofunc"
    THEN [req |-> r, err |-> <<"processRequest not found">>]
    ELSE IF h.run = "throw"
    THEN [req |-> r, err |-> <<"processRequest failed", "thrown">>]
    ELSE IF h.run = "retString"
    THEN [req |-> r, err |-> <<"cannot parse processed request">>]
    ELSE IF h.run = "retArrayBody" \/ r.Body = "null"
    THEN [req |-> r, err |-> <<"cannot parse processed request body">>]
    ELSE LET hs == CASE h.run = "setA" -> HeaderSet(r.Header, HdrA, "js")
                     [] h.run = "copyAB" ->
                          IF HdrA \in DOMAIN r.Header
                          THEN HeaderSet(r.Header, HdrB, r.Header[HdrA])
                          ELSE r.Header
                     [] OTHER -> r.Header
         IN  [req |-> [r EXCEPT !.Header = hs, !.Body = Reencode(r.Body)],
              err |-> NoErr]

\* a Before that waits for the script of an asynchronous hook however long it runs
JSHookBeforeWaits(h, r) == executeScript(h, r)

\* JSHook.Before: a synchronous hook runs the script; an asynchronous one starts it
\* in a goroutine (BeforeAsync) and selects on its two channels and on
\* time.After(h.Timeout), so a script that runs for longer than the timeout loses
\* to the timer and one that finishes while Before waits is received
JSHookBefore(h, r) ==
    IF h.IsAsync /\ Takes(h.run) > h.Timeout
    THEN [req |-> r, err |-> ErrTimeout]
    ELSE executeScript(h, r)

\* CommandHook.Before, synchronous: executeCommand
CommandHookBefore(h, r) ==
    CASE h.run = "exit1" -> [req |-> r, err |-> <<"command failed", "exit status 1">>]
      [] h.run = "emit" -> [req |-> [r EXCEPT !.Body = "{id:2}"], err |-> NoErr]
      [] OTHER -> [req |-> r, err |-> NoErr]

\* Before of a hook materialized from a definition
HookBefore(hook, r) ==
    IF hook.impl = "JSHook" THEN JSHookBefore(hook, r) ELSE CommandHookBefore(hook, r)

\* Before of a host-registered hook: AuthHook (setA) or a CustomFunctionHook closure
RegisteredBefore(kind, r) ==
    CASE kind = "setA" -> [req |-> [r EXCEPT !.Header = HeaderSet(@, HdrA, "tok")],
                           err |-> NoErr]
      [] kind = "copyAB" -> [req |-> [r EXCEPT !.Header =
                                         HeaderSet(@, HdrB, HeaderGet(r.Header, HdrA))],
                             err |-> NoErr]
      [] kind = "fail" -> [req |-> r, err |-> <<"hook refused">>]
      [] OTHER -> [req |-> r, err |-> NoErr]

BeforeEvent(src, i, in, out) ==
    [ev |-> "before", src |-> src, i |-> i, in |-> in, out |-> out.req,
     ok |-> out.err = NoErr]

\* ExecuteTemplateJSON, the loop over tmplDef.BeforeHooks; st = [req, err, trace]
RECURSIVE TemplateBeforeHooks(_, _, _)
TemplateBeforeHooks(defs, i, st) ==
    IF i > Len(defs) THEN st
    ELSE LET made == CreateHookFromDefinition(defs[i]) IN
         IF made.err # NoErr
         THEN [st EXCEPT !.err = <<"create before-hook failed">> \o made.err]
         ELSE IF ~IsBeforeRequestHook(made.hook)
         THEN [st EXCEPT !.err = <<"not a before-hook">>]
         ELSE LET out == HookBefore(made.hook, st.req)
                  tr == Append(st.trace, BeforeEvent("template", i, st.req, out))
              IN  IF out.err # NoErr
                  THEN [req |-> out.req, trace |-> tr,
                        err |-> <<"before-hook failed">> \o out.err]
                  ELSE TemplateBeforeHooks(defs, i + 1,
                           [req |-> out.req, err |-> NoErr, trace |-> tr])

\* a loop over c.beforeHook that does not stop at a failing hook
RECURSIVE GlobalBeforeHooksPastFailure(_, _, _)
GlobalBeforeHooksPastFailure(hooks, i, st) ==
    IF i > Len(hooks) THEN st
    ELSE LET out == RegisteredBefore(hooks[i], st.req)
             tr == Append(st.trace, BeforeEvent("global", i, st.req, out))
         IN  GlobalBeforeHooksPastFailure(hooks, i + 1,
                 [req |-> out.req, err |-> NoErr, trace |-> tr])

\* ExecuteTemplateJSON, the loop over c.beforeHook
RECURSIVE GlobalBeforeHooks(_, _, _)
GlobalBeforeHooks(hooks, i, st) ==
    IF i > Len(hooks) THEN st
    ELSE LET out == RegisteredBefore(hooks[i], st.req)
             tr == Append(st.trace, BeforeEvent("global", i, st.req, out))
         IN  IF out.err # NoErr
             THEN [req |-> out.req, trace |-> tr,
                   err |-> <<"before-hook failed">> \o out.err]
             ELSE GlobalBeforeHooks(hooks, i + 1,
                      [req |-> out.req, err |-> NoErr, trace |-> tr])

\* a pipeline that runs the client's before-hooks ahead of the template's
BeforeChainGlobalFirst(defs, hooks, r) ==
    LET g == GlobalBeforeHooks(hooks, 1, [req |-> r, err |-> NoErr, trace |-> << >>])
    IN  IF g.err # NoErr THEN g ELSE TemplateBeforeHooks(defs, 1, g)

\* ExecuteTemplateJSON: the template's before-hooks, then the client's
BeforeChain(defs, hooks, r) ==
    LET t == TemplateBeforeHooks(defs, 1, [req |-> r, err |-> NoErr, trace |-> << >>])
    IN  IF t.err # NoErr THEN t ELSE GlobalBeforeHooks(hooks, 1, t)

(***************************************************************************)
(* Responses.  An http.Response struct is [StatusCode, Header, Body]:      *)
(* Header is a reference into the heap H of header maps (a Go map is       *)
(* shared by every copy of the struct), Body the bytes its reader yields.  *)
(***************************************************************************)
\* the timeout of the asynchronous JSResponseHook a host registers
AfterTimeout == 1

\* After of a host-registered hook: a CustomFunctionHook closure, or ("asyncSleep")
\* a JSResponseHook with IsAsync and AfterTimeout whose script sleeps and then sets
\* header X-A: After selects on the channels of AfterAsync and on the timer
RegisteredAfter(kind, rs, H) ==
    CASE kind = "asyncSleep" ->
           IF Takes("sleep") > AfterTimeout
           THEN [resp |-> rs, err |-> ErrTimeout, hdr |-> H]
           ELSE [resp |-> rs, err |-> NoErr,
                 hdr |-> [H EXCEPT ![rs.Header] = HeaderSet(@, HdrA, "js")]]
      [] kind = "setA" ->
           [resp |-> rs, err |-> NoErr,
            hdr |-> [H EXCEPT ![rs.Header] = HeaderSet(@, HdrA, "tok")]]
      [] kind = "copyAB" ->
           [resp |-> rs, err |-> NoErr,
            hdr |-> [H EXCEPT ![rs.Header] = HeaderSet(@, HdrB, HeaderGet(@, HdrA))]]
      [] kind = "wrap" ->
           [resp |-> [rs EXCEPT !.Body = "[" \o @ \o "]"], err |-> NoErr, hdr |-> H]
      [] kind = "st500" ->
           [resp |-> [rs EXCEPT !.StatusCode = 500], err |-> NoErr, hdr |-> H]
      [] kind = "st200" ->
           [resp |-> [rs EXCEPT !.StatusCode = 200], err |-> NoErr, hdr |-> H]
      [] kind = "fail" ->
           [resp |-> rs, err |-> <<"hook refused">>, hdr |-> H]
      [] OTHER -> [resp |-> rs, err |-> NoErr, hdr |-> H]

\* After of a response hook materialized from a definition (JSResponseHook.After)
HookAfter(hook, rs, H) ==
    IF hook.run \in {"throw", "exit1"}
    THEN [resp |-> rs, err |-> <<"processResponse failed">>, hdr |-> H]
    ELSE RegisteredAfter(hook.run, rs, H)

AfterEvent(src, i, out) ==
    [ev |-> "after", src |-> src, i |-> i, ok |-> out.err = NoErr]

\* ExecuteTemplateJSON, the loop over tmplDef.AfterHooks; st = [resp, hdr, err, trace]
RECURSIVE TemplateAfterHooks(_, _, _)
TemplateAfterHooks(defs, i, st) ==
    IF i > Len(defs) THEN st
    ELSE LET made == CreateHookFromDefinition(defs[i]) IN
         IF made.err # NoErr
         THEN [st EXCEPT !.err = <<"create after-hook failed">> \o made.err]
         ELSE IF ~IsAfterResponseHook(made.hook)
         THEN [st EXCEPT !.err = <<"not an after-hook">>]
         ELSE LET out == HookAfter(made.hook, st.resp, st.hdr)
                  tr == Append(st.trace, AfterEvent("template", i, out))
              IN  IF out.err # NoErr
                  THEN [resp |-> out.resp, hdr |-> out.hdr, trace |-> tr,
                        err |-> <<"after-hook failed">> \o out.err]
                  ELSE TemplateAfterHooks(defs, i + 1,
                           [resp |-> out.resp, hdr |-> out.hdr, err |-> NoErr,
                            trace |-> tr])

\* a loop over c.afterHook that swallows a hook's failure and goes on
RECURSIVE GlobalAfterHooksPastFailure(_, _, _)
GlobalAfterHooksPastFailure(hooks, i, st) ==
    IF i > Len(hooks) THEN st
    ELSE LET out == RegisteredAfter(hooks[i], st.resp, st.hdr)
             tr == Append(st.trace, AfterEvent("global", i, out))
         IN  GlobalAfterHooksPastFailure(hooks, i + 1,
                 [resp |-> out.resp, hdr |-> out.hdr, err |-> NoErr, trace |-> tr])

\* ExecuteTemplateJSON, the loop over c.afterHook (network path and cache hit)
RECURSIVE GlobalAfterHooks(_, _, _)
GlobalAfterHooks(hooks, i, st) ==
    IF i > Len(hooks) THEN st
    ELSE LET out == RegisteredAfter(hooks[i], st.resp, st.hdr)
             tr == Append(st.trace, AfterEvent("global", i, out))
         IN  IF out.err # NoErr
             THEN [resp |-> out.resp, hdr |-> out.hdr, trace |-> tr,
                   err |-> <<"after-hook failed">> \o out.err]
             ELSE GlobalAfterHooks(hooks, i + 1,
                      [resp |-> out.resp, hdr |-> out.hdr, err |-> NoErr, trace |-> tr])

\* ExecuteTemplateJSON after the network call: the template's after-hooks, then the client's
AfterChain(defs, hooks, rs, H) ==
    LET t == TemplateAfterHooks(defs, 1,
                 [resp |-> rs, hdr |-> H, err |-> NoErr, trace |-> << >>])
    IN  IF t.err # NoErr THEN t ELSE GlobalAfterHooks(hooks, 1, t)

\* ExecuteTemplateJSON on a cache hit: the client's after-hooks only
CacheHitAfterChain(defs, hooks, rs, H) ==
    GlobalAfterHooks(hooks, 1, [resp |-> rs, hdr |-> H, err |-> NoErr, trace |-> << >>])

(***************************************************************************)
(* The response cache                                                      *)
(***************************************************************************)
\* generateCacheKey: SHA-256 over the URL bytes followed by the body bytes; the
\* fingerprint is written as the hashed byte string itself
generateCacheKey(url, body) == url \o body

\* getFromCache: a fresh entry is copied out; a stale one is deleted
getFromCache(c, R, key, t) ==
    IF key \in DOMAIN c
    THEN IF t < c[key].ExpireTime
         THEN [found |-> TRUE, cache |-> c,
               resp |-> [StatusCode |-> R[c[key].Response].StatusCode,
                         Header |-> R[c[key].Response].Header,
                         Body |-> c[key].Body]]
         ELSE [found |-> FALSE, resp |-> None,
               cache |-> [k \in (DOMAIN c) \ {key} |-> c[k]]]
    ELSE [found |-> FALSE, cache |-> c, resp |-> None]

\* saveToCache: stores the pointer to the response, the body bytes and the expiry
saveToCache(c, key, ptr, status, respBody, expire) ==
    IF status >= 200 /\ status < 300
    THEN [k \in (DOMAIN c) \cup {key} |->
             IF k = key
             THEN [Response |-> ptr, Body |-> respBody, ExpireTime |-> expire]
             ELSE c[k]]
    ELSE c

\* ExecuteTemplateJSON, the local cacheKey: the key pattern is never added to the
\* engine as a template, so Execute(templateID_cache_key) finds no template and
\* the raw pattern is kept
RawText(tpl) ==
    IF tpl.field = "" THEN tpl.pre \o tpl.post
    ELSE tpl.pre \o "{{." \o tpl.field \o "}}" \o tpl.post

EngineExecute(names, name, tpl, d) ==
    IF name \in names THEN [out |-> Execute(tpl, d), err |-> NoErr]
    ELSE [out |-> "", err |-> <<"template not found">>]

cacheKeyLocal(def, r, reqBodyBytes, d) ==
    IF RawText(def.Caching.KeyPattern) = ""
    THEN IF reqBodyBytes # "" THEN r.URL \o ":" \o reqBodyBytes ELSE r.URL
    ELSE LET rendered == EngineExecute({"body"} \cup {"header_" \o k : k \in DOMAIN r.Header},
                                       "cache_key", def.Caching.KeyPattern, d)
         IN  IF rendered.err = NoErr /\ rendered.out # ""
             THEN rendered.out
             ELSE RawText(def.Caching.KeyPattern)

(***************************************************************************)
(* The transport (http.Client.Do) and the errors it returns                *)
(***************************************************************************)
ErrRefused == <<"dial", "tcp", "connection", "refused">>
ErrEOF == <<"unexpected", "EOF">>
ErrReset == <<"read", "tcp", "connection", "reset">>
ErrScheme == <<"unsupported", "protocol", "scheme">>

\* strings.ToLower on a word of a message
ToLower(word) ==
    CASE word = "EOF" -> "eof"
      [] word = "Post" -> "post"
      [] OTHER -> word

retryablePatterns ==
    << <<"connection", "refused">>, <<"connection", "reset">>, <<"timeout">>,
       <<"temporary", "failure">>, <<"EOF">>, <<"i/o", "timeout">>,
       <<"too", "many", "open", "files">>, <<"no", "such", "host">> >>

\* strings.Contains, on texts written as sequences of words
Contains(s, substr) ==
    \E i \in 0..(Len(s) - Len(substr)) :
        \A j \in 1..Len(substr) : s[i + j] = substr[j]

\* a classification that takes every error for a transient one
isRetryableErrorAlways(e) == e # NoErr

\* isRetryableError: the lower-cased message contains one of the patterns
isRetryableError(e) ==
    /\ e # NoErr
    /\ \E i \in 1..Len(retryablePatterns) :
          Contains([k \in 1..Len(e) |-> ToLower(e[k])], retryablePatterns[i])

\* what a call of Do can come back with: a response with a status, or an error
Response(s) == [kind |-> "response", StatusCode |-> s, err |-> NoErr]
Failure(e) == [kind |-> "error", StatusCode |-> 0, err |-> e]

\* the transport writes the whole body before it reads a response; a dial
\* error comes before any byte of the body is read
ReadsBody(out) == out.kind = "response" \/ out.err # ErrRefused

\* the body a server answers with
ServerBody == "ok"

\* a clone that shares the body stream of the request: what the attempt reads is gone
cloneRequestSharedBody(r) == [copy |-> r, req |-> [r EXCEPT !.Body = ""]]

\* cloneRequest: the copy gets the bytes ReadRequestBody read, and the original's
\* Body is set to a fresh reader over the same bytes
cloneRequest(r) == [copy |-> r, req |-> r]

\* doWithRetry, before the loop: delay is read from initialDelay, then the defaults apply
doWithRetryInit(maxAttempts, initialDelay, backoffFactor) ==
    [attempt |-> 0,
     delay |-> initialDelay,
     maxAttempts |-> IF maxAttempts <= 0 THEN 3 ELSE maxAttempts,
     initialDelay |-> IF initialDelay <= 0 THEN 1000 ELSE initialDelay,
     backoffFactor |-> IF backoffFactor <= 0 THEN 2 ELSE backoffFactor]

\* a backoff that does not grow
NextDelayFlat(delay, backoffFactor) == delay

\* doWithRetry, after the sleep: delay *= backoffFactor
NextDelay(delay, backoffFactor) == delay * backoffFactor

\* ExecuteTemplateJSON: dispatch goes through doWithRetry
UseRetry(def) == def.Retry.Enabled /\ def.Retry.MaxAttempts > 0

(***************************************************************************)
(* Rendering and building the request                                      *)
(***************************************************************************)
ClientBaseURL == "http://h"

\* Engine.RenderJSONTemplate on a template added under a fresh name: execute, then validate
RenderJSONTemplate(tpl, d) ==
    LET text == Execute(tpl, d)
    IN  IF ValidJSON(text) THEN [out |-> text, err |-> NoErr]
        ELSE [out |-> "", err |-> <<"rendered JSON is invalid">>]

\* client headers first, template headers over them, every value rendered
MergeHeaders(ch, th, d) ==
    [k \in (DOMAIN ch) \cup (DOMAIN th) |->
        Execute(IF k \in DOMAIN th THEN th[k] ELSE ch[k], d)]

\* textproto.CanonicalMIMEHeaderKey, which http.Header.Set and Get apply to a key
CanonicalMIMEHeaderKey(k) ==
    CASE k = "x-a" -> "X-A"
      [] k = "content-type" -> "Content-Type"
      [] OTHER -> k

\* the orders in which "for key, value := range headers" can visit the keys of a map
RangeOrders(keys) ==
    {order \in [1..Cardinality(keys) -> keys] :
        \A i, j \in 1..Cardinality(keys) : i # j => order[i] # order[j]}

\* the loop of req.Header.Set(key, renderedValue) over the merged map, in one order
RECURSIVE SetAll(_, _, _, _)
SetAll(h, merged, order, i) ==
    IF i > Len(order) THEN h
    ELSE SetAll(HeaderSet(h, CanonicalMIMEHeaderKey(order[i]), merged[order[i]]),
                merged, order, i + 1)

\* ExecuteTemplateJSON up to the first hook: method, URL, headers, Content-Type
BuildRequest(def, ch, d, body, order) ==
    LET method == IF def.Request.Method = "" THEN "GET" ELSE def.Request.Method
        baseURL == IF def.Request.BaseURL # "" THEN def.Request.BaseURL ELSE ClientBaseURL
        h == SetAll(NoHeaders, MergeHeaders(ch, def.Request.Headers, d), order, 1)
    IN  [Method |-> method,
         URL |-> baseURL \o def.Request.Path,
         Header |-> IF HeaderGet(h, HdrCT) = "" /\ method \in {"POST", "PUT", "PATCH"}
                    THEN HeaderSet(h, HdrCT, "application/json")
                    ELSE h,
         Body |-> body]

(***************************************************************************)
(* pkg/template: the engine.  A data argument is a map the caller holds;   *)
(* the engine sees its address (%p) and, when it executes, its content.    *)
(***************************************************************************)
\* the addresses of the caller's data maps
Objects == {"0xa", "0xb"}

\* registerBuiltinFunctions: the function map of a new engine, name -> function
BuiltinFuncs == [f \in {"toUpper"} |-> "builtin"]

\* BeforeAsync, AfterAsync: the goroutine that runs the script, with the request or
\* response it was handed; Before or After has returned on the timer
Goroutine(p, kind, arg, run, timeout) ==
    [call |-> p, kind |-> kind, arg |-> arg, run |-> run, Timeout |-> timeout,
     state |-> "running", result |-> None]

\* the hook chain ended in the timeout of an asynchronous hook
TimedOut(chain) == Contains(chain.err, ErrTimeout)

\* a template source that calls function fn: {"id":{{fn}}}
Calling(fn) == [pre |-> "{id:", field |-> "", post |-> "}", call |-> fn]

\* what a registered function returns when a template calls it
Apply(fn) ==
    CASE fn = "one" -> "1"
      [] fn = "two" -> "2"
      [] OTHER -> "UP"

\* a Parse that accepts a call of a function that is not registered
ParseUnchecked(src, fm) ==
    IF "call" \in DOMAIN src
    THEN [err |-> NoErr,
          tmpl |-> [src |-> src,
                    bound |-> IF src.call \in DOMAIN fm THEN fm[src.call] ELSE ""]]
    ELSE [err |-> NoErr, tmpl |-> [src |-> src, bound |-> ""]]

\* template.New(name).Funcs(e.funcs).Parse(tmplStr): a call of a function that is
\* not in the map is a parse error; the functions found are bound to the template
Parse(src, fm) ==
    IF "call" \in DOMAIN src
    THEN IF src.call \in DOMAIN fm
         THEN [err |-> NoErr, tmpl |-> [src |-> src, bound |-> fm[src.call]]]
         ELSE [err |-> <<"parse template failed", "function not defined">>,
               tmpl |-> None]
    ELSE [err |-> NoErr, tmpl |-> [src |-> src, bound |-> ""]]

\* tmpl.Execute(&buf, data)
Run(tmpl, d) ==
    IF "call" \in DOMAIN tmpl.src
    THEN tmpl.src.pre \o Apply(tmpl.bound) \o tmpl.src.post
    ELSE Execute(tmpl.src, d)

\* Engine.Execute
ExecuteByName(ts, name, d) ==
    IF name \in DOMAIN ts
    THEN [out |-> Run(ts[name], d), err |-> NoErr]
    ELSE [out |-> "", err |-> <<"template not found">>]

\* RenderJSONTemplate: fmt.Sprintf("%s_%p", name, data)
renderCacheKey(name, o) == name \o "_" \o o

\* delete(e.cache, name)
DeleteKey(rc, key) == [k \in (DOMAIN rc) \ {key} |-> rc[k]]

\* a RenderJSONTemplate that stores the rendering before it validates it
RenderByNameStoreFirst(ts, rc, name, o, d) ==
    LET cacheKey == renderCacheKey(name, o) IN
    IF cacheKey \in DOMAIN rc
    THEN [ret |-> rc[cacheKey], err |-> NoErr, executed |-> FALSE, cache |-> rc]
    ELSE LET r == ExecuteByName(ts, name, d)
             stored1 == [k \in (DOMAIN rc) \cup {cacheKey} |->
                            IF k = cacheKey THEN r.out ELSE rc[k]]
         IN  IF r.err # NoErr
             THEN [ret |-> "", err |-> r.err, executed |-> FALSE, cache |-> rc]
             ELSE IF ~ValidJSON(r.out)
             THEN [ret |-> "", err |-> <<"rendered JSON is invalid">>,
                   executed |-> TRUE, cache |-> stored1]
             ELSE [ret |-> r.out, err |-> NoErr, executed |-> TRUE, cache |-> stored1]

\* a RenderJSONTemplate that never consults the cache
RenderByNameNoLookup(ts, rc, name, o, d) ==
    LET cacheKey == renderCacheKey(name, o)
        r == ExecuteByName(ts, name, d)
    IN  IF r.err # NoErr
        THEN [ret |-> "", err |-> r.err, executed |-> FALSE, cache |-> rc]
        ELSE IF ~ValidJSON(r.out)
        THEN [ret |-> "", err |-> <<"rendered JSON is invalid">>, executed |-> TRUE,
              cache |-> rc]
        ELSE [ret |-> r.out, err |-> NoErr, executed |-> TRUE,
              cache |-> [k \in (DOMAIN rc) \cup {cacheKey} |->
                            IF k = cacheKey THEN r.out ELSE rc[k]]]

\* Engine.RenderJSONTemplate: the cache first; else execute, validate, store
RenderByName(ts, rc, name, o, d) ==
    LET cacheKey == renderCacheKey(name, o) IN
    IF cacheKey \in DOMAIN rc
    THEN [ret |-> rc[cacheKey], err |-> NoErr, executed |-> FALSE, cache |-> rc]
    ELSE LET r == ExecuteByName(ts, name, d) IN
         IF r.err # NoErr
         THEN [ret |-> "", err |-> r.err, executed |-> FALSE, cache |-> rc]
         ELSE IF ~ValidJSON(r.out)
         THEN [ret |-> "", err |-> <<"rendered JSON is invalid">>, executed |-> TRUE,
               cache |-> rc]
         ELSE [ret |-> r.out, err |-> NoErr, executed |-> TRUE,
               cache |-> [k \in (DOMAIN rc) \cup {cacheKey} |->
                             IF k = cacheKey THEN r.out ELSE rc[k]]]

(***************************************************************************)
(* JSON bodies, member by member.  The bytes of a body are                 *)
(*   [kind |-> "object", members |-> <<[k, v], ...>>]  in the order written *)
(*   [kind |-> "text", text |-> ...]                   bytes that are no   *)
(*                                                     JSON object         *)
(* and a value is a string [t |-> "str", v] or a number literal            *)
(* [t |-> "num", lit], the digits as written.                              *)
(***************************************************************************)
Str(v) == [t |-> "str", v |-> v]
Num(lit) == [t |-> "num", lit |-> lit]
Object(members) == [kind |-> "object", members |-> members]
Text(text) == [kind |-> "text", text |-> text]

\* 2^53 + 1, the smallest whole number a float64 cannot hold
BigLit == "9007199254740993"

\* json.Unmarshal into interface{} makes every number a float64, and json.Marshal
\* writes a float64 in its shortest form
Float64(lit) ==
    CASE lit = BigLit -> "9007199254740992"
      [] lit = "1.0" -> "1"
      [] OTHER -> lit

\* json.Unmarshal(body, &data) for data a map[string]interface{}: key -> value
Unmarshal(members) ==
    [k \in {members[i].k : i \in 1..Len(members)} |->
        LET i == CHOOSE i \in 1..Len(members) :
                     /\ members[i].k = k
                     /\ \A j \in (i + 1)..Len(members) : members[j].k # k
            v == members[i].v
        IN  IF v.t = "num" THEN Num(Float64(v.lit)) ELSE v]

\* the keys of the bodies, in the order json.Marshal writes the keys of a map
SortedKeys == <<"id", "phone", "user">>

\* json.Marshal(data): the members sorted by key
Marshal(obj) ==
    LET ks == SelectSeq(SortedKeys, LAMBDA k : k \in DOMAIN obj)
    IN  Object([i \in 1..Len(ks) |-> [k |-> ks[i], v |-> obj[ks[i]]]])

\* FieldTransformHook.Before
FieldTransformHookBefore(r) ==
    IF r.Method \notin {"POST", "PUT"}
    THEN [req |-> r, err |-> NoErr]
    ELSE IF r.Body.kind # "object"
    THEN [req |-> r, err |-> NoErr]
    ELSE LET obj == Unmarshal(r.Body.members)
             moved == IF "user" \in DOMAIN obj
                      THEN [k \in ((DOMAIN obj) \cup {"phone"}) \ {"user"} |->
                               IF k = "phone" THEN obj["user"] ELSE obj[k]]
                      ELSE obj
         IN  [req |-> [r EXCEPT !.Body = Marshal(moved)], err |-> NoErr]

(***************************************************************************)
(* State                                                                   *)
(***************************************************************************)
Init ==
    /\ headers = NoHeaders
    /\ beforeHook = << >>
    /\ afterHook = << >>
    /\ cache = << >>
    /\ hdr = [p \in Calls |-> NoHeaders]
    /\ now = 0
    /\ pc = [p \in Calls |-> "idle"]
    /\ tmplDef = [p \in Calls |-> None]
    /\ data = [p \in Calls |-> None]
    /\ req = [p \in Calls |-> None]
    /\ resp = [p \in Calls |-> None]
    /\ err = [p \in Calls |-> NoErr]
    /\ retry = [p \in Calls |-> None]
    /\ log = [p \in Calls |-> << >>]
    /\ stored = << >>
    /\ templates = << >>
    /\ funcs = BuiltinFuncs
    /\ renderCache = << >>
    /\ heap = [o \in Objects |-> [id |-> "1"]]
    /\ trace = << >>
    /\ bg = << >>

NoneInFlight == \A q \in Calls : pc[q] \in {"idle", "done"}

\* Client.AddBeforeHook
AddBeforeHook(kind) ==
    /\ NoneInFlight
    /\ Len(beforeHook) < MaxHooks
    /\ beforeHook' = Append(beforeHook, kind)
    /\ UNCHANGED <<headers, afterHook, cache, hdr, now, pc, tmplDef, data, req, resp,
                   err, retry, log, stored>>
    /\ UNCHANGED engineVars
    /\ UNCHANGED asyncVars

\* Client.AddAfterHook
AddAfterHook(kind) ==
    /\ NoneInFlight
    /\ Len(afterHook) < MaxHooks
    /\ afterHook' = Append(afterHook, kind)
    /\ UNCHANGED <<headers, beforeHook, cache, hdr, now, pc, tmplDef, data, req, resp,
                   err, retry, log, stored>>
    /\ UNCHANGED engineVars
    /\ UNCHANGED asyncVars

\* the clock
Tick ==
    /\ now < MaxTime
    /\ now' = now + 1
    /\ UNCHANGED <<headers, beforeHook, afterHook, cache, hdr, pc, tmplDef, data, req,
                   resp, err, retry, log, stored>>
    /\ UNCHANGED engineVars
    /\ UNCHANGED asyncVars

\* ExecuteTemplateJSON from its entry to the end of the before-hooks
Begin(p, def, d) ==
    /\ pc[p] = "idle"
    /\ \A q \in Calls : q < p => pc[q] # "idle"
    /\ \E order \in RangeOrders((DOMAIN headers) \cup (DOMAIN def.Request.Headers)) :
       LET body == RenderJSONTemplate(def.Body, d)
           built == BuildRequest(def, headers, d, body.out, order)
           chain == BeforeChain(def.BeforeHooks, beforeHook, built)
       IN  /\ tmplDef' = [tmplDef EXCEPT ![p] = def]
           /\ data' = [data EXCEPT ![p] = d]
           /\ IF body.err # NoErr
              THEN /\ err' = [err EXCEPT ![p] = <<"render body failed">> \o body.err]
                   /\ pc' = [pc EXCEPT ![p] = "done"]
                   /\ UNCHANGED <<req, log>>
              ELSE /\ err' = [err EXCEPT ![p] = chain.err]
                   /\ req' = [req EXCEPT ![p] = chain.req]
                   /\ log' = [log EXCEPT ![p] =
                                 <<[ev |-> "built", req |-> built,
                                    beforeHook |-> beforeHook,
                                    afterHook |-> afterHook,
                                    cached |-> DOMAIN cache,
                                    inFlight |-> {q \in Calls :
                                                    pc[q] \notin {"idle", "done"}}]>> \o chain.trace]
                   /\ pc' = [pc EXCEPT ![p] =
                                 IF chain.err # NoErr THEN "done"
                                 ELSE IF def.Caching.Enabled THEN "cache" ELSE "send"]
           /\ bg' = IF body.err = NoErr /\ TimedOut(chain)
                    THEN LET last == chain.trace[Len(chain.trace)]
                             hook == def.BeforeHooks[last.i]
                         IN  Append(bg, Goroutine(p, "BeforeAsync", last.in,
                                                  hook.Script, hook.Timeout))
                    ELSE bg
    /\ UNCHANGED <<headers, beforeHook, afterHook, cache, hdr, now, resp, retry, stored>>
    /\ UNCHANGED engineVars

\* ExecuteTemplateJSON, "if tmplDef.Caching.Enabled": the lookup and, on a hit, the return
CacheLookup(p) ==
    /\ pc[p] = "cache"
    /\ LET reqBodyBytes == req[p].Body
           key == generateCacheKey(req[p].URL, reqBodyBytes)
           got == getFromCache(cache, resp, key, now)
           look == [ev |-> "lookup", key |-> key, found |-> got.found, at |-> now,
                    cacheKey |-> cacheKeyLocal(tmplDef[p], req[p], reqBodyBytes, data[p]),
                    evicted |-> key \in DOMAIN cache /\ ~got.found,
                    seen |-> IF got.found
                             THEN [StatusCode |-> got.resp.StatusCode,
                                   Header |-> hdr[got.resp.Header],
                                   Body |-> got.resp.Body]
                             ELSE None,
                    inserted |-> IF got.found THEN stored[key] ELSE None]
       IN  IF got.found
           THEN LET chain == CacheHitAfterChain(tmplDef[p].AfterHooks, afterHook,
                                                got.resp, hdr)
                IN  /\ hdr' = chain.hdr
                    /\ err' = [err EXCEPT ![p] = chain.err]
                    /\ resp' = [resp EXCEPT ![p] =
                                   IF chain.err # NoErr THEN None ELSE chain.resp]
                    /\ log' = [log EXCEPT ![p] = Append(@, look) \o chain.trace]
                    /\ pc' = [pc EXCEPT ![p] = "done"]
                    /\ bg' = IF TimedOut(chain)
                             THEN Append(bg, Goroutine(p, "AfterAsync", chain.resp,
                                                       "sleep", AfterTimeout))
                             ELSE bg
                    /\ UNCHANGED cache
           ELSE /\ cache' = got.cache
                /\ log' = [log EXCEPT ![p] = Append(@, look)]
                /\ pc' = [pc EXCEPT ![p] = "send"]
                /\ UNCHANGED <<hdr, err, resp, bg>>
    /\ UNCHANGED <<headers, beforeHook, afterHook, now, tmplDef, data, req, retry, stored>>
    /\ UNCHANGED engineVars

AttemptEvent(r, n, out) ==
    [ev |-> "attempt", n |-> n, url |-> r.URL, body |-> r.Body, header |-> r.Header,
     status |-> out.StatusCode, err |-> out.err]

\* ExecuteTemplateJSON, "resp, err = clientCopy.Do(req)"
Send(p, out) ==
    /\ pc[p] = "send"
    /\ ~UseRetry(tmplDef[p])
    /\ log' = [log EXCEPT ![p] = Append(@, AttemptEvent(req[p], 0, out))]
    /\ req' = [req EXCEPT ![p].Body = IF ReadsBody(out) THEN "" ELSE @]
    /\ IF out.kind = "response"
       THEN /\ resp' = [resp EXCEPT ![p] =
                           [StatusCode |-> out.StatusCode, Header |-> p, Body |-> ServerBody]]
            /\ hdr' = [hdr EXCEPT ![p] = NoHeaders]
            /\ pc' = [pc EXCEPT ![p] = "after"]
            /\ UNCHANGED err
       ELSE /\ err' = [err EXCEPT ![p] = <<"send request failed">> \o out.err]
            /\ pc' = [pc EXCEPT ![p] = "done"]
            /\ UNCHANGED <<resp, hdr>>
    /\ UNCHANGED <<headers, beforeHook, afterHook, cache, now, tmplDef, data, retry, stored>>
    /\ UNCHANGED engineVars
    /\ UNCHANGED asyncVars

\* doWithRetry with the status of a response read as well: a 5xx is tried again
ReturnsAttemptUnless5xx(out) ==
    \/ out.err = NoErr /\ out.StatusCode < 500
    \/ out.err # NoErr /\ ~isRetryableError(out.err)

\* doWithRetry: err == nil || !c.isRetryableError(err), the attempt is the answer
ReturnsAttempt(out) == out.err = NoErr \/ ~isRetryableError(out.err)

\* doWithRetry: one iteration of the loop (the first one also sets the locals up)
RetryAttempt(p, out) ==
    /\ \/ pc[p] = "send" /\ UseRetry(tmplDef[p])
       \/ pc[p] = "retry"
    /\ LET loc == IF pc[p] = "send"
                  THEN doWithRetryInit(tmplDef[p].Retry.MaxAttempts,
                                       tmplDef[p].Retry.InitialDelay,
                                       tmplDef[p].Retry.BackoffFactor)
                  ELSE retry[p]
           cl == cloneRequest(req[p])
           tried == Append(log[p], AttemptEvent(cl.copy, loc.attempt, out))
       IN  /\ loc.attempt < loc.maxAttempts
           /\ req' = [req EXCEPT ![p] = cl.req]
           /\ IF ReturnsAttempt(out) /\ out.kind = "response"
              THEN /\ resp' = [resp EXCEPT ![p] =
                                  [StatusCode |-> out.StatusCode, Header |-> p,
                                   Body |-> ServerBody]]
                   /\ hdr' = [hdr EXCEPT ![p] = NoHeaders]
                   /\ pc' = [pc EXCEPT ![p] = "after"]
                   /\ log' = [log EXCEPT ![p] = tried]
                   /\ retry' = [retry EXCEPT ![p] = loc]
                   /\ UNCHANGED err
              ELSE IF ReturnsAttempt(out)
              THEN /\ err' = [err EXCEPT ![p] = <<"send request failed">> \o out.err]
                   /\ pc' = [pc EXCEPT ![p] = "done"]
                   /\ log' = [log EXCEPT ![p] = tried]
                   /\ retry' = [retry EXCEPT ![p] = loc]
                   /\ UNCHANGED <<resp, hdr>>
              ELSE IF loc.attempt = loc.maxAttempts - 1
              THEN /\ err' = [err EXCEPT ![p] =
                                 <<"send request failed", "max retries exhausted">>
                                     \o out.err]
                   /\ pc' = [pc EXCEPT ![p] = "done"]
                   /\ log' = [log EXCEPT ![p] = tried]
                   /\ retry' = [retry EXCEPT ![p] = loc]
                   /\ UNCHANGED <<resp, hdr>>
              ELSE /\ log' = [log EXCEPT ![p] =
                                 Append(tried, [ev |-> "sleep", ms |-> loc.delay])]
                   /\ retry' = [retry EXCEPT ![p] =
                                   [loc EXCEPT !.delay = NextDelay(loc.delay,
                                                                  loc.backoffFactor),
                                               !.attempt = loc.attempt + 1]]
                   /\ pc' = [pc EXCEPT ![p] = "retry"]
                   /\ UNCHANGED <<resp, hdr, err>>
    /\ UNCHANGED <<headers, beforeHook, afterHook, cache, now, tmplDef, data, stored>>
    /\ UNCHANGED engineVars
    /\ UNCHANGED asyncVars

\* ExecuteTemplateJSON from the after-hooks to the return: the chain, then the cache save
AfterHooks(p) ==
    /\ pc[p] = "after"
    /\ LET chain == AfterChain(tmplDef[p].AfterHooks, afterHook, resp[p], hdr)
           final == chain.resp
           reqBodyBytes == req[p].Body
           key == generateCacheKey(req[p].URL, reqBodyBytes)
           done == [ev |-> "returned", ok |-> chain.err = NoErr,
                    status |-> final.StatusCode, at |-> now]
           saves == /\ chain.err = NoErr
                    /\ tmplDef[p].Caching.Enabled
                    /\ final.StatusCode >= 200 /\ final.StatusCode < 300
       IN  /\ hdr' = chain.hdr
           /\ err' = [err EXCEPT ![p] = chain.err]
           /\ resp' = [resp EXCEPT ![p] = IF chain.err # NoErr THEN None ELSE final]
           /\ pc' = [pc EXCEPT ![p] = "done"]
           /\ IF saves
              THEN /\ cache' = saveToCache(cache, key, p, final.StatusCode, final.Body,
                                           now + tmplDef[p].Caching.TTL)
                   /\ stored' = [k \in (DOMAIN stored) \cup {key} |->
                                    IF k = key
                                    THEN [by |-> p, at |-> now,
                                          ttl |-> tmplDef[p].Caching.TTL,
                                          StatusCode |-> final.StatusCode,
                                          Header |-> chain.hdr[final.Header],
                                          Body |-> final.Body]
                                    ELSE stored[k]]
                   /\ log' = [log EXCEPT ![p] =
                                 @ \o chain.trace \o
                                 <<done, [ev |-> "save", key |-> key, at |-> now]>>]
              ELSE /\ log' = [log EXCEPT ![p] = Append(@ \o chain.trace, done)]
                   /\ UNCHANGED <<cache, stored>>
           /\ bg' = IF TimedOut(chain)
                    THEN Append(bg, Goroutine(p, "AfterAsync", chain.resp, "sleep",
                                              AfterTimeout))
                    ELSE bg
    /\ UNCHANGED <<headers, beforeHook, afterHook, now, tmplDef, data, req, retry>>
    /\ UNCHANGED engineVars

\* the script of goroutine g comes to its end after Before or After has returned:
\* it has worked on the request or response it was handed, in place, and its
\* result goes into the buffered channel nobody receives from any more
ScriptFinish(g) ==
    /\ g \in 1..Len(bg)
    /\ bg[g].state = "running"
    /\ IF bg[g].kind = "BeforeAsync"
       THEN LET out == executeScript([run |-> bg[g].run], req[bg[g].call])
            IN  /\ bg' = [bg EXCEPT ![g].state = "done", ![g].result = out]
                /\ req' = [req EXCEPT ![bg[g].call] = out.req]
                /\ UNCHANGED hdr
       ELSE /\ bg' = [bg EXCEPT ![g].state = "done",
                                ![g].result = [resp |-> bg[g].arg, err |-> NoErr]]
            /\ hdr' = [hdr EXCEPT ![bg[g].arg.Header] = HeaderSet(@, HdrA, "js")]
            /\ UNCHANGED req
    /\ UNCHANGED <<headers, beforeHook, afterHook, cache, now, pc, tmplDef, data, resp,
                   err, retry, log, stored>>
    /\ UNCHANGED engineVars

\* the caller, holding the *http.Response a call returned, changes it
CallerMutate(p, what) ==
    /\ pc[p] = "done"
    /\ err[p] = NoErr
    /\ resp[p] # None
    /\ CASE what = "status" ->
              /\ resp[p].StatusCode # 500
              /\ resp' = [resp EXCEPT ![p].StatusCode = 500]
              /\ UNCHANGED hdr
         [] what = "header" ->
              /\ HeaderGet(hdr[resp[p].Header], HdrA) # "caller"
              /\ hdr' = [hdr EXCEPT ![resp[p].Header] = HeaderSet(@, HdrA, "caller")]
              /\ UNCHANGED resp
         [] OTHER ->
              /\ resp[p].Body # ""
              /\ resp' = [resp EXCEPT ![p].Body = ""]
              /\ UNCHANGED hdr
    /\ UNCHANGED <<headers, beforeHook, afterHook, cache, now, pc, tmplDef, data, req,
                   err, retry, log, stored>>
    /\ UNCHANGED engineVars
    /\ UNCHANGED asyncVars

(***************************************************************************)
(* Inputs                                                                  *)
(***************************************************************************)
JS(script) ==
    [Type |-> "js", Script |-> script, Command |-> "", Async |-> FALSE, Timeout |-> 0]
JSAsync(script, timeout) ==
    [Type |-> "js", Script |-> script, Command |-> "", Async |-> TRUE,
     Timeout |-> timeout]
Cmd(command) ==
    [Type |-> "command", Script |-> "", Command |-> command, Async |-> FALSE,
     Timeout |-> 0]
OfType(t) == [Type |-> t, Script |-> "", Command |-> "", Async |-> FALSE, Timeout |-> 0]

SeqsUpTo(S, n) == UNION {[1..m -> S] : m \in 0..n}

BodyTemplate == [pre |-> "{id:", field |-> "id", post |-> "}"]

NoCaching == [Enabled |-> FALSE, TTL |-> 0, KeyPattern |-> Lit("")]
Caching(ttl, pattern) == [Enabled |-> TRUE, TTL |-> ttl, KeyPattern |-> pattern]

NoRetry == [Enabled |-> FALSE, MaxAttempts |-> 0, InitialDelay |-> 0, BackoffFactor |-> 0]
Retry(n, d, f) ==
    [Enabled |-> TRUE, MaxAttempts |-> n, InitialDelay |-> d, BackoffFactor |-> f]

Template(method, path, bh, ah, caching, retrying) ==
    [Request |-> [Method |-> method, BaseURL |-> "", Path |-> path,
                  Headers |-> NoHeaders, Timeout |-> 0],
     Body |-> BodyTemplate,
     BeforeHooks |-> bh,
     AfterHooks |-> ah,
     Caching |-> caching,
     Retry |-> retrying]

(***************************************************************************)
(* What a call did, read off its history                                   *)
(***************************************************************************)
Events(p, kind) == SelectSeq(log[p], LAMBDA e : e.ev = kind)

Started(p) == pc[p] # "idle" /\ Len(log[p]) > 0

Dispatched(p) == Len(Events(p, "attempt")) > 0

Returned(p) == pc[p] = "done"

(***************************************************************************)
(* One execution on a client with any hooks registered                     *)
(***************************************************************************)
HookDefs == {JS("setA"), JS("copyAB"), JS("throw"), Cmd("emit"), OfType("function")}

HookTemplates ==
    {Template("POST", "/a", bh, << >>, c, NoRetry) :
        bh \in SeqsUpTo(HookDefs, MaxHooks), c \in {NoCaching, Caching(1, Lit(""))}}

HooksNext ==
    \/ \E kind \in {"setA", "copyAB", "fail"} : AddBeforeHook(kind)
    \/ \E def \in HookTemplates : Begin(1, def, [id |-> "1"])
    \/ CacheLookup(1)
    \/ \E out \in {Response(200), Failure(ErrRefused)} : Send(1, out)
    \/ AfterHooks(1)

SpecHooks == Init /\ [][HooksNext]_vars

(***************************************************************************)
(* Before-hooks                                                            *)
(***************************************************************************)
LastBefore(p) ==
    LET bs == Events(p, "before")
    IN  IF Len(bs) = 0 THEN log[p][1].req ELSE bs[Len(bs)].out

\* C1: the before-hooks of an execution run one after another, the template's
\* beforeHooks in list order and then the client's in registration order; each
\* hook receives the request its predecessor returned, and the request that is
\* dispatched is the one the last hook returned.  A hook that copies X-A into
\* X-B after a hook that sets X-A sends the value set; the other way round it
\* sends none.
C1_BeforeHooksInOrder ==
    \A p \in Calls : Started(p) =>
        LET bs == Events(p, "before")
            at == Events(p, "attempt")
            nT == Len(tmplDef[p].BeforeHooks)
            reg == log[p][1].beforeHook
        IN  /\ Len(bs) <= nT + Len(reg)
            /\ \A k \in 1..Len(bs) :
                  /\ IF k <= nT
                     THEN bs[k].src = "template" /\ bs[k].i = k
                     ELSE bs[k].src = "global" /\ bs[k].i = k - nT
                  /\ bs[k].in = IF k = 1 THEN log[p][1].req ELSE bs[k - 1].out
                  /\ k < Len(bs) => bs[k].ok
            /\ \A a \in 1..Len(at) :
                  /\ Len(bs) = nT + Len(reg)
                  /\ at[a].url = LastBefore(p).URL
                  /\ at[a].body = LastBefore(p).Body
                  /\ at[a].header = LastBefore(p).Header
                  /\ (nT = 0 /\ reg = <<"setA", "copyAB">>)
                        => HeaderGet(at[a].header, HdrB) = "tok"
                  /\ (nT = 0 /\ reg = <<"copyAB", "setA">>)
                        => HeaderGet(at[a].header, HdrB) = ""
                  /\ (tmplDef[p].BeforeHooks = <<JS("setA")>> /\ reg = <<"copyAB">>)
                        => HeaderGet(at[a].header, HdrB) = "js"

\* a template hook set X-A, a client hook copied it into X-B, and the request
\* went out with the copied value
C1_Witness ==
    /\ tmplDef[1] # None
    /\ tmplDef[1].BeforeHooks = <<JS("setA")>>
    /\ Dispatched(1)
    /\ log[1][1].beforeHook = <<"copyAB">>
    /\ Len(Events(1, "before")) = 2
    /\ HeaderGet(Events(1, "attempt")[1].header, HdrB) = "js"

FailedBefore(p) ==
    \/ \E k \in 1..Len(log[p]) : log[p][k].ev = "before" /\ ~log[p][k].ok
    \/ /\ pc[p] = "done"
       /\ err[p] # NoErr
       /\ err[p][1] \in {"create before-hook failed", "not a before-hook"}

\* C2: when a before-hook fails (or cannot be built), the call returns an error,
\* the failing hook is the last thing the call did: no later before-hook, no
\* cache lookup, no dispatch, no after-hook and no cache insert
C2_BeforeHookErrorAborts ==
    \A p \in Calls : (Started(p) /\ FailedBefore(p)) =>
        /\ Returned(p)
        /\ err[p] # NoErr
        /\ resp[p] = None
        /\ \A k \in 2..Len(log[p]) :
              /\ log[p][k].ev = "before"
              /\ ~log[p][k].ok => k = Len(log[p])
        /\ \A k \in DOMAIN stored : stored[k].by # p

\* a client hook failed after a template hook succeeded, with another client
\* hook registered behind it and caching enabled
C2_Witness ==
    /\ Returned(1)
    /\ tmplDef[1].Caching.Enabled
    /\ Len(tmplDef[1].BeforeHooks) = 1
    /\ log[1][1].beforeHook = <<"fail", "setA">>
    /\ Len(log[1]) = 3
    /\ ~log[1][3].ok
    /\ err[1] = <<"before-hook failed", "hook refused">>
    /\ cache = << >>

(***************************************************************************)
(* Calls one after another on a client whose templates cache                *)
(***************************************************************************)
UserPattern == [pre |-> "", field |-> "user", post |-> ""]

CacheTemplates ==
    {Template("POST", "/a", << >>, << >>, Caching(1, kp), r) :
        kp \in {Lit(""), UserPattern}, r \in {NoRetry, Retry(2, 1, 1)}}

CacheData == {[id |-> "1", user |-> "u1"], [id |-> "1", user |-> "u2"],
              [id |-> "2", user |-> "u1"]}

Outcomes == {Response(200), Response(500), Failure(ErrRefused)}

CacheNext ==
    \/ Tick
    \/ \E p \in Calls, def \in CacheTemplates, d \in CacheData :
          NoneInFlight /\ Begin(p, def, d)
    \/ \E p \in Calls : CacheLookup(p)
    \/ \E p \in Calls, out \in Outcomes : Send(p, out)
    \/ \E p \in Calls, out \in Outcomes : RetryAttempt(p, out)
    \/ \E p \in Calls : AfterHooks(p)

SpecCache == Init /\ [][CacheNext]_vars

Is2xx(status) == status >= 200 /\ status < 300

\* the call went to the network and returned a response with a 2xx final status
Succeeded(p) ==
    /\ Returned(p)
    /\ Dispatched(p)
    /\ err[p] = NoErr
    /\ \E k \in 1..Len(log[p]) :
          log[p][k].ev = "returned" /\ log[p][k].ok /\ Is2xx(log[p][k].status)

ReturnedAt(p) == Events(p, "returned")[1].at

LookedUp(p) == Len(Events(p, "lookup")) > 0

Lookup(p) == Events(p, "lookup")[1]

NoKeyPattern(p) == RawText(tmplDef[p].Caching.KeyPattern) = ""

\* C3: with caching enabled, a call that follows a call which went to the
\* network and returned 2xx, has the same final URL and body and looks the
\* cache up before ttl has elapsed, dispatches nothing, with or without retry
C3_SecondCallServedFromCache ==
    \A p \in Calls, q \in Calls :
        ( /\ q = p + 1
          /\ Succeeded(p)
          /\ Started(q)
          /\ tmplDef[p].Caching.Enabled /\ tmplDef[q].Caching.Enabled
          /\ NoKeyPattern(p) /\ NoKeyPattern(q)
          /\ LastBefore(q).URL = LastBefore(p).URL
          /\ LastBefore(q).Body = LastBefore(p).Body
          /\ LookedUp(q)
          /\ Lookup(q).at < ReturnedAt(p) + tmplDef[p].Caching.TTL )
        => ~Dispatched(q)

\* C4: an entry is served only strictly before its insert time plus its ttl; a
\* lookup that finds it stale evicts it and the call dispatches, and when that
\* call ends with a 2xx status the entry is back under the same fingerprint
\* with expiry = insert time + ttl
C4_StaleEntryReplaced ==
    \A p \in Calls : LookedUp(p) =>
        /\ Lookup(p).found =>
              Lookup(p).at < Lookup(p).inserted.at + Lookup(p).inserted.ttl
        /\ (Lookup(p).evicted /\ Returned(p)) => Dispatched(p)
        /\ ( /\ Lookup(p).evicted
             /\ Succeeded(p)
             /\ \A q \in Calls : q > p => pc[q] = "idle" )
           => /\ Lookup(p).key \in DOMAIN cache
              /\ cache[Lookup(p).key].ExpireTime =
                    ReturnedAt(p) + tmplDef[p].Caching.TTL

Rendered(p) == Execute(tmplDef[p].Caching.KeyPattern, data[p])

\* C5: with a key pattern, the rendered pattern is the fingerprint: a call that
\* looks the cache up while the entry of the call before it is fresh finds it
\* exactly when the two rendered patterns are equal, whatever URL and body are
C5_KeyPatternIsTheFingerprint ==
    \A p \in Calls, q \in Calls :
        ( /\ q = p + 1
          /\ Succeeded(p)
          /\ UseRetry(tmplDef[p])
          /\ LookedUp(q)
          /\ tmplDef[p].Caching.Enabled /\ tmplDef[q].Caching.Enabled
          /\ Rendered(p) # "" /\ Rendered(q) # ""
          /\ Lookup(q).at < ReturnedAt(p) + tmplDef[p].Caching.TTL )
        => (Lookup(q).found <=> Rendered(p) = Rendered(q))

(***************************************************************************)
(* Calls one after another on a client with after-hooks that change the    *)
(* status or fail                                                          *)
(***************************************************************************)
NoCallYet == \A q \in Calls : pc[q] = "idle"

SaveTemplates ==
    {Template("POST", "/a", << >>, ah, c, r) :
        ah \in {<< >>, <<JS("setA")>>},
        c \in {NoCaching, Caching(1, Lit(""))},
        r \in {NoRetry, Retry(1, 1, 1)}}

SaveNext ==
    \/ \E kind \in {"st500", "st200", "fail"} : NoCallYet /\ AddAfterHook(kind)
    \/ \E p \in Calls, def \in SaveTemplates :
          NoneInFlight /\ Begin(p, def, [id |-> "1"])
    \/ \E p \in Calls : CacheLookup(p)
    \/ \E p \in Calls, out \in Outcomes : Send(p, out)
    \/ \E p \in Calls, out \in Outcomes : RetryAttempt(p, out)
    \/ \E p \in Calls : AfterHooks(p)

SpecSave == Init /\ [][SaveNext]_vars

\* the step writes an entry under k: a new key, or a new entry under an old one
Writes(k) == k \in DOMAIN cache' /\ (k \in DOMAIN cache => cache'[k] # cache[k])

\* the step is the return of call p
Returns(p) == pc[p] # "done" /\ pc'[p] = "done"

\* C6: an entry is written to the cache only by the return of an execution
\* that has caching enabled, dispatched, ran every after-hook of the template
\* and of the client without a failure and ends with a status in 200..299; the
\* return of an execution with an error or with another final status writes
\* no entry
C6_InsertOnlyAfterSuccess ==
    [][ /\ \A k \in DOMAIN cache' : Writes(k) =>
              \E p \in Calls :
                  /\ Returns(p)
                  /\ cache'[k].Response = p
                  /\ tmplDef[p].Caching.Enabled
                  /\ \E i \in 1..Len(log'[p]) : log'[p][i].ev = "attempt"
                  /\ err'[p] = NoErr
                  /\ Is2xx(resp'[p].StatusCode)
                  /\ LET as == SelectSeq(log'[p], LAMBDA e : e.ev = "after")
                     IN  /\ Len(as) = Len(tmplDef[p].AfterHooks) + Len(afterHook)
                         /\ \A i \in 1..Len(as) : as[i].ok
        /\ \A p \in Calls :
              (Returns(p) /\ (err'[p] # NoErr \/ ~Is2xx(resp'[p].StatusCode)))
                 => \A k \in DOMAIN cache' : ~Writes(k)
      ]_vars

\* the server answered 500, a client after-hook made it 200, and the response
\* went into the cache over an entry that was there
C6_Witness ==
    \E p \in Calls :
        /\ p > 1
        /\ Succeeded(p)
        /\ Events(p, "attempt")[1].status = 500
        /\ Len(Events(p, "save")) = 1
        /\ Events(p, "save")[1].key \in DOMAIN cache
        /\ cache[Events(p, "save")[1].key].Response = p
        /\ Len(Events(p - 1, "save")) = 1
        /\ Events(p - 1, "save")[1].key = Events(p, "save")[1].key

(***************************************************************************)
(* Calls one after another on a client with after-hooks, whose callers     *)
(* change the responses they get                                           *)
(***************************************************************************)
ShareTemplates ==
    {Template("POST", "/a", << >>, ah, Caching(1, Lit("")), r) :
        ah \in {<< >>, <<JS("setA")>>}, r \in {NoRetry, Retry(1, 1, 1)}}

ShareNext ==
    \/ \E kind \in {"setA", "fail"} : AddAfterHook(kind)
    \/ \E p \in Calls, def \in ShareTemplates :
          NoneInFlight /\ Begin(p, def, [id |-> "1"])
    \/ \E p \in Calls : CacheLookup(p)
    \/ \E p \in Calls, out \in {Response(200), Response(500)} : Send(p, out)
    \/ \E p \in Calls, out \in {Response(200), Response(500)} : RetryAttempt(p, out)
    \/ \E p \in Calls : AfterHooks(p)
    \/ \E p \in Calls, what \in {"status", "header", "body"} : CallerMutate(p, what)

SpecShare == Init /\ [][ShareNext]_vars

\* C7: what a cache hit observes (status, headers, body) is what was inserted,
\* whatever callers did to the responses they were handed and whatever
\* after-hooks did to the responses of earlier hits
C7_HitsObserveWhatWasInserted ==
    \A p \in Calls : (LookedUp(p) /\ Lookup(p).found) =>
        /\ Lookup(p).seen.StatusCode = Lookup(p).inserted.StatusCode
        /\ Lookup(p).seen.Header = Lookup(p).inserted.Header
        /\ Lookup(p).seen.Body = Lookup(p).inserted.Body

\* C9: an execution that returns a response has passed it through every
\* after-hook of the template, in list order, and then through every after-hook
\* of the client, in registration order, on the network path and on a cache
\* hit; an execution in which an after-hook failed returns an error and ran no
\* hook behind the failing one
C9_TemplateAfterHooksThenGlobal ==
    \A p \in Calls : (Started(p) /\ Returned(p)) =>
        LET as == Events(p, "after")
            nT == Len(tmplDef[p].AfterHooks)
            reg == log[p][1].afterHook
        IN  /\ (err[p] = NoErr /\ resp[p] # None) =>
                  /\ Len(as) = nT + Len(reg)
                  /\ \A k \in 1..Len(as) :
                        /\ as[k].ok
                        /\ IF k <= nT
                           THEN as[k].src = "template" /\ as[k].i = k
                           ELSE as[k].src = "global" /\ as[k].i = k - nT
            /\ \A k \in 1..Len(as) : ~as[k].ok => (k = Len(as) /\ err[p] # NoErr)

(***************************************************************************)
(* Calls that overlap                                                      *)
(***************************************************************************)
ConcTemplates ==
    {Template("POST", "/a", << >>, << >>, Caching(1, Lit("")), r) :
        r \in {NoRetry, Retry(1, 1, 1)}}

ConcNext ==
    \/ Tick
    \/ \E p \in Calls, def \in ConcTemplates, d \in {[id |-> "1"], [id |-> "2"]} :
          Begin(p, def, d)
    \/ \E p \in Calls : CacheLookup(p)
    \/ \E p \in Calls, out \in {Response(200), Response(500)} : Send(p, out)
    \/ \E p \in Calls, out \in {Response(200), Response(500)} : RetryAttempt(p, out)
    \/ \E p \in Calls : AfterHooks(p)

SpecConc == Init /\ [][ConcNext]_vars

\* C8: of two calls with caching enabled that overlap, compute the same
\* fingerprint and started when the cache had no entry for it, at most one
\* dispatches
C8_AtMostOneDispatch ==
    \A p \in Calls, q \in Calls :
        ( /\ p < q
          /\ Started(p) /\ Started(q)
          /\ p \in log[q][1].inFlight
          /\ UseRetry(tmplDef[p]) /\ UseRetry(tmplDef[q])
          /\ LookedUp(p) /\ LookedUp(q)
          /\ Lookup(p).key = Lookup(q).key
          /\ Lookup(p).key \notin log[p][1].cached )
        => ~(Dispatched(p) /\ Dispatched(q))

(***************************************************************************)
(* One execution with retry against a transport that can fail              *)
(***************************************************************************)
RetryTemplates ==
    {Template("POST", "/a", << >>, << >>, NoCaching, Retry(n, d, f)) :
        n \in 1..MaxTries, d \in 1..MaxDelay, f \in 1..MaxFactor}

RetryOutcomes ==
    {Response(200), Response(500), Failure(ErrRefused), Failure(ErrReset),
     Failure(ErrScheme)}

RetryNext ==
    \/ \E def \in RetryTemplates : Begin(1, def, [id |-> "1"])
    \/ \E out \in RetryOutcomes : RetryAttempt(1, out)
    \/ AfterHooks(1)

SpecRetry == Init /\ [][RetryNext]_vars

RECURSIVE Pow(_, _)
Pow(f, k) == IF k = 0 THEN 1 ELSE f * Pow(f, k - 1)

\* every attempt so far failed with a retryable error
OnlyRetryableFailures(p) ==
    \A k \in 1..Len(log[p]) :
        log[p][k].ev = "attempt" => isRetryableError(log[p][k].err)

\* C10: with maxAttempts = n >= 1, initialDelay = d > 0, backoffFactor = f > 0
\* and every attempt failing with a retryable error, the call makes attempts
\* and sleeps in turn, the k-th sleep lasting d * f^(k-1) ms, never more than
\* n attempts; it returns after exactly n attempts and n - 1 sleeps, the last
\* thing it did being an attempt, with the max-retries-exhausted error wrapped
\* around the last attempt's error
C10_RetrySchedule ==
    \A p \in Calls :
        ( /\ Started(p)
          /\ tmplDef[p].Retry.Enabled
          /\ tmplDef[p].Retry.MaxAttempts >= 1
          /\ tmplDef[p].Retry.InitialDelay > 0
          /\ tmplDef[p].Retry.BackoffFactor > 0
          /\ OnlyRetryableFailures(p) )
        => LET n == tmplDef[p].Retry.MaxAttempts
               d == tmplDef[p].Retry.InitialDelay
               f == tmplDef[p].Retry.BackoffFactor
               tries == SelectSeq(log[p], LAMBDA e : e.ev \in {"attempt", "sleep"})
               at == Events(p, "attempt")
               sl == Events(p, "sleep")
           IN  /\ Len(at) <= n
               /\ \A k \in 1..Len(tries) :
                     tries[k].ev = IF k % 2 = 1 THEN "attempt" ELSE "sleep"
               /\ \A k \in 1..Len(at) : at[k].n = k - 1
               /\ \A k \in 1..Len(sl) : sl[k].ms = d * Pow(f, k - 1)
               /\ Returned(p) =>
                     /\ Len(at) = n
                     /\ Len(sl) = n - 1
                     /\ log[p][Len(log[p])].ev = "attempt"
                     /\ resp[p] = None
                     /\ err[p] = <<"send request failed", "max retries exhausted">>
                                    \o at[n].err
               /\ Len(at) = n => Returned(p)

\* three attempts with sleeps of 2 and 4 ms between them, the last two errors
\* different, and the call returned the last one wrapped
C10_Witness ==
    /\ Returned(1)
    /\ tmplDef[1].Retry = Retry(3, 2, 2)
    /\ OnlyRetryableFailures(1)
    /\ Len(Events(1, "attempt")) = 3
    /\ Events(1, "attempt")[2].err = ErrRefused
    /\ Events(1, "sleep")[1].ms = 2
    /\ Events(1, "sleep")[2].ms = 4
    /\ err[1] = <<"send request failed", "max retries exhausted">> \o ErrReset

(***************************************************************************)
(* One execution with any retry settings, the zero values included         *)
(***************************************************************************)
DefaultsTemplates ==
    {Template("POST", "/a", << >>, << >>, NoCaching,
              [Enabled |-> e, MaxAttempts |-> n, InitialDelay |-> d,
               BackoffFactor |-> f]) :
        e \in BOOLEAN, n \in 0..MaxTries, d \in 0..MaxDelay, f \in 0..MaxFactor}

DefaultsNext ==
    \/ \E def \in DefaultsTemplates : Begin(1, def, [id |-> "1"])
    \/ \E out \in RetryOutcomes : Send(1, out)
    \/ \E out \in RetryOutcomes : RetryAttempt(1, out)
    \/ AfterHooks(1)

SpecDefaults == Init /\ [][DefaultsNext]_vars

\* C11: with retry enabled, a zero initialDelay means the first sleep lasts
\* 1000 ms, and a zero backoffFactor means every later sleep lasts twice the
\* one before it
C11_DefaultsApplyToDelays ==
    \A p \in Calls : (Started(p) /\ tmplDef[p].Retry.Enabled) =>
        LET sl == Events(p, "sleep")
        IN  /\ (tmplDef[p].Retry.InitialDelay = 0 /\ Len(sl) >= 1) => sl[1].ms = 1000
            /\ tmplDef[p].Retry.BackoffFactor = 0 =>
                  \A k \in 2..Len(sl) : sl[k].ms = 2 * sl[k - 1].ms

\* C12: with retry enabled and maxAttempts zero, a call whose every attempt
\* fails with a retryable error returns after exactly 3 attempts
C12_ZeroMaxAttemptsMeansThree ==
    \A p \in Calls :
        ( /\ Started(p)
          /\ Returned(p)
          /\ tmplDef[p].Retry.Enabled
          /\ tmplDef[p].Retry.MaxAttempts = 0
          /\ Dispatched(p)
          /\ OnlyRetryableFailures(p) )
        => Len(Events(p, "attempt")) = 3

\* the phrases that mark a transient failure
Signatures ==
    { <<"connection", "refused">>, <<"connection", "reset">>, <<"timeout">>,
      <<"EOF">>, <<"too", "many", "open", "files">>, <<"no", "such", "host">>,
      <<"temporary", "failure">> }

Lower(text) == [k \in 1..Len(text) |-> ToLower(text[k])]

\* the message contains a signature, letter case aside
MatchesSignature(e) == \E sig \in Signatures : Contains(Lower(e), Lower(sig))

\* C13: an attempt that fails with an error matching no transient-failure
\* signature is the last thing the dispatch does, whatever maxAttempts is: no
\* sleep and no attempt follow it, and the call returns that error, not
\* wrapped as max-retries-exhausted
C13_FatalErrorStopsRetry ==
    \A p \in Calls : Started(p) =>
        \A k \in 1..Len(log[p]) :
            ( /\ log[p][k].ev = "attempt"
              /\ log[p][k].err # NoErr
              /\ ~MatchesSignature(log[p][k].err) )
            => /\ k = Len(log[p])
               /\ Returned(p)
               /\ resp[p] = None
               /\ err[p] = <<"send request failed">> \o log[p][k].err

\* the second of three allowed attempts failed with an error that matches no
\* signature, after a sleep, and the call returned it
C13_Witness ==
    /\ Returned(1)
    /\ tmplDef[1].Retry.Enabled
    /\ tmplDef[1].Retry.MaxAttempts = 3
    /\ Len(Events(1, "attempt")) = 2
    /\ Len(Events(1, "sleep")) = 1
    /\ Events(1, "attempt")[2].err = ErrScheme
    /\ err[1] = <<"send request failed">> \o ErrScheme

(***************************************************************************)
(* isRetryableError on any error message                                   *)
(***************************************************************************)
Words == {"EOF", "Post", "unexpected", "timeout", "i/o", "connection", "refused",
          "failed"}

Messages == SeqsUpTo(Words, MaxWords) \ {NoErr}

\* one call of isRetryableError
Classify(e) ==
    /\ trace = << >>
    /\ trace' = <<[op |-> "isRetryableError", arg |-> e, ret |-> isRetryableError(e)]>>
    /\ UNCHANGED <<clientVars, asyncVars, templates, funcs, renderCache, heap>>

ClassifyNext == \E e \in Messages : Classify(e)

SpecClassify == Init /\ [][ClassifyNext]_vars

\* C14: isRetryableError answers true exactly for the errors whose message
\* contains one of the transient-failure signatures (connection refused,
\* connection reset, timeout, EOF, too many open files, no such host,
\* temporary failure)
C14_RetryableIffSignature ==
    \A k \in 1..Len(trace) :
        trace[k].op = "isRetryableError" =>
            (trace[k].ret <=> MatchesSignature(trace[k].arg))

(***************************************************************************)
(* The engine, driven directly                                             *)
(***************************************************************************)
\* Engine.AddFunc
AddFunc(name, fn) ==
    /\ Len(trace) < MaxOps
    /\ funcs' = [f \in (DOMAIN funcs) \cup {name} |-> IF f = name THEN fn ELSE funcs[f]]
    /\ trace' = Append(trace, [op |-> "AddFunc", name |-> name, fn |-> fn])
    /\ UNCHANGED <<clientVars, asyncVars, templates, renderCache, heap>>

\* Engine.AddTemplate
AddTemplate(name, src) ==
    /\ Len(trace) < MaxOps
    /\ LET parsed == Parse(src, funcs)
       IN  /\ IF parsed.err # NoErr
              THEN UNCHANGED <<templates, renderCache>>
              ELSE /\ templates' = [n \in (DOMAIN templates) \cup {name} |->
                                       IF n = name THEN parsed.tmpl ELSE templates[n]]
                   /\ renderCache' = DeleteKey(renderCache, name)
           /\ trace' = Append(trace, [op |-> "AddTemplate", name |-> name, src |-> src,
                                      err |-> parsed.err])
    /\ UNCHANGED <<clientVars, asyncVars, funcs, heap>>

\* Engine.RemoveTemplate
RemoveTemplate(name) ==
    /\ Len(trace) < MaxOps
    /\ templates' = [n \in (DOMAIN templates) \ {name} |-> templates[n]]
    /\ renderCache' = DeleteKey(renderCache, name)
    /\ trace' = Append(trace, [op |-> "RemoveTemplate", name |-> name])
    /\ UNCHANGED <<clientVars, asyncVars, funcs, heap>>

\* Engine.HasTemplate
HasTemplate(name) ==
    /\ Len(trace) < MaxOps
    /\ trace' = Append(trace, [op |-> "HasTemplate", name |-> name,
                               ret |-> name \in DOMAIN templates])
    /\ UNCHANGED <<clientVars, asyncVars, templates, funcs, renderCache, heap>>

\* Engine.Execute(name, data), data the map at address o
CallExecute(name, o) ==
    /\ Len(trace) < MaxOps
    /\ LET r == ExecuteByName(templates, name, heap[o])
       IN  trace' = Append(trace, [op |-> "Execute", name |-> name, obj |-> o,
                                   ret |-> r.out, err |-> r.err])
    /\ UNCHANGED <<clientVars, asyncVars, templates, funcs, renderCache, heap>>

\* Engine.RenderJSONTemplate(name, data), data the map at address o
CallRenderJSONTemplate(name, o) ==
    /\ Len(trace) < MaxOps
    /\ LET r == RenderByName(templates, renderCache, name, o, heap[o])
       IN  /\ renderCache' = r.cache
           /\ trace' = Append(trace, [op |-> "RenderJSONTemplate", name |-> name,
                                      obj |-> o, data |-> heap[o], ret |-> r.ret,
                                      err |-> r.err, executed |-> r.executed])
    /\ UNCHANGED <<clientVars, asyncVars, templates, funcs, heap>>

\* Engine.ClearCache
ClearCache ==
    /\ Len(trace) < MaxOps
    /\ renderCache' = << >>
    /\ trace' = Append(trace, [op |-> "ClearCache"])
    /\ UNCHANGED <<clientVars, asyncVars, templates, funcs, heap>>

\* the caller changes the map at address o
MutateData(o) ==
    /\ heap' = [heap EXCEPT ![o].id = IF @ = "1" THEN "2" ELSE "1"]
    /\ UNCHANGED <<clientVars, asyncVars, templates, funcs, renderCache, trace>>

RenderSources == {BodyTemplate, Lit("{id:2}"), Lit("oops")}

RenderNext ==
    \/ \E src \in RenderSources : AddTemplate("t", src)
    \/ RemoveTemplate("t")
    \/ HasTemplate("t")
    \/ \E o \in Objects : CallExecute("t", o)
    \/ \E o \in Objects : CallRenderJSONTemplate("t", o)
    \/ ClearCache
    \/ \E o \in Objects : MutateData(o)

SpecRender == Init /\ [][RenderNext]_vars

\* the calls of RenderJSONTemplate made so far, in order
Renders == SelectSeq(trace, LAMBDA e : e.op = "RenderJSONTemplate")

\* C15: RenderJSONTemplate returns bytes only if they parse as JSON, an invalid
\* rendering is answered with an error and no bytes, and every entry of the
\* engine's render cache is valid JSON
C15_OnlyValidJSONReturnedOrCached ==
    /\ \A i \in 1..Len(Renders) :
          /\ Renders[i].err = NoErr => ValidJSON(Renders[i].ret)
          /\ Renders[i].err # NoErr => Renders[i].ret = ""
    /\ \A k \in DOMAIN renderCache : ValidJSON(renderCache[k])

\* a valid rendering was returned and is cached, and a later rendering that is
\* not valid JSON was refused
C15_Witness ==
    \E i, j \in 1..Len(Renders) :
        /\ i < j
        /\ Renders[i].executed /\ Renders[i].err = NoErr
        /\ renderCacheKey(Renders[i].name, Renders[i].obj) \in DOMAIN renderCache
        /\ Renders[j].executed /\ Renders[j].err # NoErr

\* calls i < j of RenderJSONTemplate with the same template name and the same data
\* object, the first successful, and no AddTemplate, RemoveTemplate or ClearCache
\* between them
SameRenderTwice(i, j) ==
    /\ i < j
    /\ trace[i].op = "RenderJSONTemplate" /\ trace[j].op = "RenderJSONTemplate"
    /\ trace[i].name = trace[j].name /\ trace[i].obj = trace[j].obj
    /\ trace[i].err = NoErr
    /\ \A k \in (i + 1)..(j - 1) :
          trace[k].op \notin {"AddTemplate", "RemoveTemplate", "ClearCache"}

\* C16: a second RenderJSONTemplate of the same name and the same data object,
\* with no AddTemplate, RemoveTemplate or ClearCache in between, returns the same
\* bytes as the first and is served from the cache without executing the template
C16_SameObjectServedFromCache ==
    \A i, j \in 1..Len(trace) :
        SameRenderTwice(i, j) =>
            /\ trace[j].err = NoErr
            /\ trace[j].ret = trace[i].ret
            /\ ~trace[j].executed

\* such a pair of calls, the caller having changed the map between them
C16_Witness ==
    \E i, j \in 1..Len(trace) :
        /\ SameRenderTwice(i, j)
        /\ trace[i].data # trace[j].data
        /\ trace[j].ret = trace[i].ret

\* C17: after AddTemplate(name, src2) the next RenderJSONTemplate(name, data)
\* returns the rendering of src2, also for a data object whose rendering under the
\* old source was cached
C17_AddTemplateInvalidatesRenderings ==
    \A i, j, k \in 1..Len(trace) :
        ( /\ i < j /\ j < k
          /\ trace[i].op = "RenderJSONTemplate" /\ trace[i].err = NoErr
          /\ trace[j].op = "AddTemplate" /\ trace[j].err = NoErr
          /\ trace[k].op = "RenderJSONTemplate"
          /\ trace[j].name = trace[i].name /\ trace[k].name = trace[i].name
          /\ trace[k].obj = trace[i].obj
          /\ \A l \in (j + 1)..(k - 1) :
                trace[l].op \notin {"AddTemplate", "RemoveTemplate"} )
        => LET out == Execute(trace[j].src, trace[k].data)
           IN  IF ValidJSON(out)
               THEN trace[k].err = NoErr /\ trace[k].ret = out
               ELSE trace[k].err # NoErr

ErrNotFound == <<"template not found">>

\* C18: once RemoveTemplate(name) has run and the name has not been added again,
\* HasTemplate(name) is false and Execute(name, d) and RenderJSONTemplate(name, d)
\* fail with the template-not-found error, for every data d
C18_RemovedTemplateIsGone ==
    \A j, k \in 1..Len(trace) :
        ( /\ j < k
          /\ trace[j].op = "RemoveTemplate"
          /\ trace[k].op \in {"HasTemplate", "Execute", "RenderJSONTemplate"}
          /\ trace[k].name = trace[j].name
          /\ \A l \in (j + 1)..(k - 1) : trace[l].op # "AddTemplate" )
        => IF trace[k].op = "HasTemplate"
           THEN trace[k].ret = FALSE
           ELSE trace[k].err = ErrNotFound

(***************************************************************************)
(* Functions and templates that call them                                  *)
(***************************************************************************)
FuncSources == {Calling("f"), Lit("{id:2}")}

FuncsNext ==
    \/ \E fn \in {"one", "two"} : AddFunc("f", fn)
    \/ \E src \in FuncSources : AddTemplate("t", src)
    \/ HasTemplate("t")
    \/ CallExecute("t", "0xa")

SpecFuncs == Init /\ [][FuncsNext]_vars

\* the AddFunc calls for function fn made before call j
Registrations(fn, j) ==
    {i \in 1..(j - 1) : trace[i].op = "AddFunc" /\ trace[i].name = fn}

\* the successful AddTemplate calls for template name made before call k
Compiled(name, k) ==
    {j \in 1..(k - 1) : /\ trace[j].op = "AddTemplate" /\ trace[j].name = name
                        /\ trace[j].err = NoErr}

Max(S) == CHOOSE x \in S : \A y \in S : y <= x

\* C19: AddTemplate of a source that calls a function succeeds exactly when the
\* function is registered at that moment; a failed AddTemplate stores no
\* template, whatever is registered afterwards; and a compiled template calls the
\* function that was registered when it was compiled
C19_FunctionsBindAtCompileTime ==
    /\ \A j \in 1..Len(trace) :
          (trace[j].op = "AddTemplate" /\ "call" \in DOMAIN trace[j].src) =>
              (trace[j].err = NoErr <=>
                  \/ trace[j].src.call \in DOMAIN BuiltinFuncs
                  \/ Registrations(trace[j].src.call, j) # {})
    /\ \A k \in 1..Len(trace) :
          Compiled("t", k) = {} =>
              /\ trace[k].op = "HasTemplate" => trace[k].ret = FALSE
              /\ trace[k].op = "Execute" => trace[k].err = ErrNotFound
    /\ \A k \in 1..Len(trace) :
          (trace[k].op = "Execute" /\ Compiled("t", k) # {}) =>
              LET j == Max(Compiled("t", k))
                  src == trace[j].src
              IN  /\ trace[k].err = NoErr
                  /\ "call" \in DOMAIN src =>
                        LET i == Max(Registrations(src.call, j))
                        IN  trace[k].ret = src.pre \o Apply(trace[i].fn) \o src.post

\* a template calling f was refused, f was registered afterwards, the template
\* still did not exist, and adding it again then succeeded
C19_Witness ==
    \E i, j, k, l \in 1..Len(trace) :
        /\ i < j /\ j < k /\ k < l
        /\ trace[i].op = "AddTemplate" /\ trace[i].err # NoErr
        /\ trace[j].op = "AddFunc"
        /\ trace[k].op = "HasTemplate" /\ trace[k].ret = FALSE
        /\ trace[l].op = "AddTemplate" /\ trace[l].err = NoErr
        /\ "call" \in DOMAIN trace[l].src

(***************************************************************************)
(* Asynchronous script hooks with a timeout                                *)
(***************************************************************************)
\* before-hook lists: none, a script that outlasts its timeout (alone, after a
\* synchronous hook, after an asynchronous one that finishes in time), one that
\* finishes in time
AsyncHookLists ==
    { << >>,
      <<JSAsync("sleep", 1)>>,
      <<JSAsync("sleep", SleepTime + 1)>>,
      <<JS("setA"), JSAsync("sleep", 1)>>,
      <<JSAsync("sleep", SleepTime + 1), JSAsync("sleep", 1)>> }

AsyncTemplates ==
    {Template("POST", "/a", bh, << >>, NoCaching, NoRetry) : bh \in AsyncHookLists}

AsyncNext ==
    \/ \E kind \in {"asyncSleep", "setA"} : NoCallYet /\ AddAfterHook(kind)
    \/ \E p \in Calls, def \in AsyncTemplates :
          NoneInFlight /\ Begin(p, def, [id |-> "1"])
    \/ \E p \in Calls, out \in {Response(200), Failure(ErrRefused)} : Send(p, out)
    \/ \E p \in Calls : AfterHooks(p)
    \/ \E g \in 1..MaxCalls : ScriptFinish(g)

SpecAsync == Init /\ [][AsyncNext]_vars

\* the runs, by call p, of an asynchronous JS request hook whose script outlasts
\* its timeout
SlowBefore(p) ==
    {k \in 1..Len(log[p]) :
        /\ log[p][k].ev = "before" /\ log[p][k].src = "template"
        /\ LET def == tmplDef[p].BeforeHooks[log[p][k].i]
           IN  def.Type = "js" /\ def.Async /\ def.Timeout > 0
               /\ Takes(def.Script) > def.Timeout}

\* the runs, by call p, of the asynchronous JS response hook whose script outlasts
\* its timeout
SlowAfter(p) ==
    {k \in 1..Len(log[p]) :
        /\ log[p][k].ev = "after" /\ log[p][k].src = "global"
        /\ afterHook[log[p][k].i] = "asyncSleep"
        /\ Takes("sleep") > AfterTimeout}

\* the goroutine of call p's hook is there, running or finished, and Before or
\* After returned when the timeout had passed and the script had not
LeftBehind(p, kind) ==
    \E g \in 1..Len(bg) :
        /\ bg[g].call = p /\ bg[g].kind = kind
        /\ bg[g].state \in {"running", "done"}
        /\ bg[g].Timeout < Takes(bg[g].run)

\* call p has failed with the timeout error and hands no response to its caller
FailedOnTimeout(p) ==
    /\ pc[p] = "done"
    /\ Contains(err[p], ErrTimeout)
    /\ resp[p] = None
    /\ Events(p, "save") = << >>

FactoryDefs ==
    {JS("setA"), JSAsync("sleep", SleepTime + 1), Cmd("emit"), OfType("function"),
     OfType("webhook"), OfType("")}

FactoryTemplates ==
    {Template("POST", "/a", bh, ah, NoCaching, NoRetry) :
        bh \in SeqsUpTo(FactoryDefs, MaxHooks),
        ah \in {<< >>, <<OfType("function")>>, <<OfType("webhook")>>, <<JS("setA")>>}}

\* one call of CreateHookFromDefinition
Materialize(def) ==
    /\ trace = << >>
    /\ trace' = <<[op |-> "CreateHookFromDefinition", arg |-> def,
                   ret |-> CreateHookFromDefinition(def)]>>
    /\ UNCHANGED <<clientVars, asyncVars, templates, funcs, renderCache, heap>>

FactoryNext ==
    \/ \E def \in FactoryDefs : Materialize(def)
    \/ \E def \in FactoryTemplates : Begin(1, def, [id |-> "1"])
    \/ \E out \in {Response(200), Failure(ErrRefused)} : Send(1, out)
    \/ AfterHooks(1)

SpecFactory == Init /\ [][FactoryNext]_vars

\* the definitions of a list that CreateHookFromDefinition cannot build
Unbuildable(defs) == {i \in 1..Len(defs) : defs[i].Type \notin {"js", "command"}}

\* C21: CreateHookFromDefinition builds a script hook from the inline script, the
\* async flag and the timeout for type "js", a command hook from the shell string
\* for type "command", and returns an error for "function" and for every other
\* type; an execution that meets a definition it cannot build fails
C21_FactoryIsTotalOnTheTypeTag ==
    /\ \A k \in 1..Len(trace) :
          trace[k].op = "CreateHookFromDefinition" =>
              LET def == trace[k].arg
                  ret == trace[k].ret
              IN  CASE def.Type = "js" ->
                         /\ ret.err = NoErr
                         /\ ret.hook.impl = "JSHook" /\ ret.hook.run = def.Script
                         /\ ret.hook.IsAsync = def.Async
                         /\ ret.hook.Timeout = def.Timeout
                    [] def.Type = "command" ->
                         /\ ret.err = NoErr
                         /\ ret.hook.impl = "CommandHook" /\ ret.hook.run = def.Command
                    [] OTHER -> ret.err # NoErr /\ ret.hook = None
    /\ \A p \in Calls :
          /\ ( /\ Started(p)
               /\ \E i \in Unbuildable(tmplDef[p].BeforeHooks) :
                     Len(Events(p, "before")) = i - 1 /\ \A k \in 1..(i - 1) : Events(p, "before")[k].ok )
             => /\ Returned(p) /\ err[p] # NoErr /\ ~Dispatched(p)
                /\ err[p][1] = "create before-hook failed"
          /\ ( /\ Returned(p) /\ Dispatched(p)
               /\ Events(p, "attempt")[1].err = NoErr
               /\ Unbuildable(tmplDef[p].AfterHooks) # {} )
             => err[p] # NoErr /\ resp[p] = None

\* a call stopped at a before-hook definition of an unknown type after an earlier
\* hook of the list had run
C21_Witness ==
    /\ Returned(1)
    /\ Len(Events(1, "before")) = 1
    /\ 2 \in Unbuildable(tmplDef[1].BeforeHooks)
    /\ tmplDef[1].BeforeHooks[2].Type = "webhook"
    /\ err[1] # NoErr

\* C22: a template whose afterHooks hold a definition of type "js" executes
\* successfully: once the network response is in, the definition is built as a
\* response hook, applied, and the response is returned
C22_TemplateJSAfterHookRuns ==
    \A p \in Calls :
        ( /\ Returned(p) /\ Dispatched(p)
          /\ Events(p, "attempt")[1].err = NoErr
          /\ tmplDef[p].AfterHooks # << >>
          /\ \A i \in 1..Len(tmplDef[p].AfterHooks) : tmplDef[p].AfterHooks[i].Type = "js" )
        => /\ err[p] = NoErr
           /\ resp[p] # None
           /\ Len(Events(p, "after")) = Len(tmplDef[p].AfterHooks)

(***************************************************************************)
(* The field-transform hook on any body                                    *)
(***************************************************************************)
Values == {Str("x"), Num("1"), Num("1.0"), Num(BigLit)}

Members == {[k |-> k, v |-> v] : k \in {"id", "phone", "user"}, v \in Values}

\* the objects of up to MaxMembers members with distinct keys, and two bodies that
\* are no JSON object
Bodies ==
    {Object(ms) : ms \in {s \in SeqsUpTo(Members, MaxMembers) :
                             \A i, j \in 1..Len(s) : i # j => s[i].k # s[j].k}}
    \cup {Text("oops"), Text("[1]")}

\* one call of FieldTransformHook.Before
Transform(method, body) ==
    /\ trace = << >>
    /\ LET r == [Method |-> method, Body |-> body]
       IN  trace' = <<[op |-> "FieldTransformHook.Before", arg |-> r,
                       ret |-> FieldTransformHookBefore(r)]>>
    /\ UNCHANGED <<clientVars, asyncVars, templates, funcs, renderCache, heap>>

TransformNext == \E method \in {"POST", "PUT", "GET"}, body \in Bodies : Transform(method, body)

SpecTransform == Init /\ [][TransformNext]_vars

\* the value a key has in an object body; a number by its numeric value, so that 1
\* and 1.0 are the same value
ValueOf(body, key) ==
    LET i == CHOOSE i \in 1..Len(body.members) : body.members[i].k = key
        v == body.members[i].v
    IN  IF v.t = "num" /\ v.lit = "1.0" THEN Num("1") ELSE v

KeysOf(body) == {body.members[i].k : i \in 1..Len(body.members)}

\* C23: for POST and PUT, a JSON object with the key user comes back with that
\* value under phone, without user, and with every other key and value unchanged;
\* for any other method, and for a body that is no JSON, the body comes back byte
\* for byte; no error is returned
C23_UserBecomesPhone ==
    \A n \in 1..Len(trace) :
        trace[n].op = "FieldTransformHook.Before" =>
            LET in == trace[n].arg.Body
                out == trace[n].ret.req.Body
            IN  /\ trace[n].ret.err = NoErr
                /\ trace[n].arg.Method \notin {"POST", "PUT"} => out = in
                /\ in.kind # "object" => out = in
                /\ ( /\ trace[n].arg.Method \in {"POST", "PUT"}
                     /\ in.kind = "object" /\ "user" \in KeysOf(in) )
                   => /\ out.kind = "object"
                      /\ KeysOf(out) = (KeysOf(in) \ {"user"}) \cup {"phone"}
                      /\ ValueOf(out, "phone") = ValueOf(in, "user")
                      /\ \A k \in KeysOf(in) \ {"user", "phone"} :
                            ValueOf(out, k) = ValueOf(in, k)

(***************************************************************************)
(* Request headers: client defaults, template headers, Content-Type.       *)
(***************************************************************************)
MaxHeaders == 2

\* Client.SetHeader
SetHeader(key, value) ==
    /\ NoneInFlight
    /\ Cardinality((DOMAIN headers) \cup {key}) <= MaxHeaders
    /\ headers' = HeaderSet(headers, key, value)
    /\ UNCHANGED <<beforeHook, afterHook, cache, hdr, now, pc, tmplDef, data, req, resp,
                   err, retry, log, stored>>
    /\ UNCHANGED engineVars
    /\ UNCHANGED asyncVars

Token == [pre |-> "", field |-> "tok", post |-> ""]

ClientHeaderKeys == {"X-A", "x-a", "X-B", "Content-Type"}

ClientHeaderValues == {Lit("c"), Token}

TemplateHeaderSets ==
    {NoHeaders, [k \in {"X-A"} |-> Lit("t")], [k \in {"X-A"} |-> Token],
     [k \in {"Content-Type"} |-> Lit("text/plain")], [k \in {"Content-Type"} |-> Token],
     [k \in {"X-A", "Content-Type"} |-> Token]}

HeaderTemplates ==
    {[Template(method, "/h", << >>, << >>, NoCaching, NoRetry)
        EXCEPT !.Request.Headers = th] :
        method \in {"", "GET", "POST", "PUT", "PATCH"}, th \in TemplateHeaderSets}

HeaderData == {[id |-> "1", tok |-> ""], [id |-> "1", tok |-> "v"]}

HeadersNext ==
    \/ \E key \in ClientHeaderKeys, value \in ClientHeaderValues : SetHeader(key, value)
    \/ \E def \in HeaderTemplates, d \in HeaderData : Begin(1, def, d)
    \/ Send(1, Response(200))

SpecHeaders == Init /\ [][HeadersNext]_vars

\* the keys of one level that name the header k
Naming(hs, k) == {x \in DOMAIN hs : CanonicalMIMEHeaderKey(x) = k}

\* what the claim gives header k of a call: the template's value, else the client's
Effective(ch, th, d, k) ==
    IF Naming(th, k) # {} THEN {Execute(th[x], d) : x \in Naming(th, k)}
    ELSE {Execute(ch[x], d) : x \in Naming(ch, k)}

\* C24: the headers of the request that is sent carry, for every key defined at
\* either level, the template's rendered value when the template defines the key
\* and the client's rendered default otherwise; and Content-Type is
\* application/json exactly when POST, PUT or PATCH is sent with no non-empty
\* Content-Type from either level.
C24_TemplateHeaderWins ==
    Dispatched(1) =>
        LET sent == Events(1, "attempt")[1]
            th == tmplDef[1].Request.Headers
            named == {CanonicalMIMEHeaderKey(x) : x \in (DOMAIN headers) \cup (DOMAIN th)}
            given == Effective(headers, th, data[1], HdrCT)
            defaulted == /\ req[1].Method \in {"POST", "PUT", "PATCH"}
                         /\ given \subseteq {""}
        IN  /\ \A k \in named \ {HdrCT} :
                  HeaderGet(sent.header, k) \in Effective(headers, th, data[1], k)
            /\ IF defaulted THEN HeaderGet(sent.header, HdrCT) = "application/json"
               ELSE HeaderGet(sent.header, HdrCT) \in given \cup
                        (IF given = {} THEN {""} ELSE {})

(***************************************************************************)
(* JS hooks called directly: failing scripts and the status of a response. *)
(***************************************************************************)
\* the request Before hands back when select takes the closed reqChan
NilRequest == [nil |-> "*http.Request"]

\* JSHook.Before with the goroutine of BeforeAsync: a failed script sends its error
\* on errChan and closes reqChan at once, so a caller that reaches the select after
\* both sees two ready cases and select takes either one; the closed reqChan yields
\* a nil request and Before returns it with a nil error
JSHookBeforeSelect(h, r) ==
    {JSHookBefore(h, r)} \cup
    (IF h.IsAsync /\ Takes(h.run) <= h.Timeout /\ executeScript(h, r).err # NoErr
     THEN {[req |-> NilRequest, err |-> NoErr]}
     ELSE {})

\* the status member of the object processResponse returns, as Export hands it over:
\* the Go int it was given, an int64, a float64 (whole part n), or no number
GoInt(n) == [t |-> "int", n |-> n, frac |-> FALSE]
Int64(n) == [t |-> "int64", n |-> n, frac |-> FALSE]
Float(n, frac) == [t |-> "float64", n |-> n, frac |-> frac]
NotANumber(t) == [t |-> t, n |-> 0, frac |-> FALSE]

\* NewJSResponseHookFromString: run is what the script does, status what the
\* object it returns carries
NewJSResponseHookFromString(run, status, isAsync, timeout) ==
    [impl |-> "JSResponseHook", run |-> run, status |-> status,
     IsAsync |-> isAsync, Timeout |-> timeout]

\* handleProcessedResponse, the coercion with the int64 branch left out
handleProcessedResponseFloatOnly(h, rs) ==
    [resp |-> IF h.status.t \in {"float64", "int"}
              THEN [rs EXCEPT !.StatusCode = h.status.n]
              ELSE rs,
     err |-> NoErr]

\* JSResponseHook.handleProcessedResponse: int(status) of a float64, an int64 or an
\* int becomes the status code, anything else leaves it
handleProcessedResponse(h, rs) ==
    [resp |-> IF h.status.t \in {"float64", "int64", "int"}
              THEN [rs EXCEPT !.StatusCode = h.status.n]
              ELSE rs,
     err |-> NoErr]

\* JSResponseHook.executeScript and processResponseWithJS
ResponseExecuteScript(h, rs) ==
    IF h.run \in {"syntax", "throwAtLoad"}
    THEN [resp |-> rs, err |-> <<"run script failed">>]
    ELSE IF rs.Body = NilBody
    THEN [resp |-> rs, err |-> NoErr]
    ELSE IF h.run = "nofunc"
    THEN [resp |-> rs, err |-> <<"processResponse not found">>]
    ELSE IF h.run = "throw"
    THEN [resp |-> rs, err |-> <<"processResponse failed", "thrown">>]
    ELSE IF h.run = "retString"
    THEN [resp |-> rs, err |-> <<"cannot parse processed response">>]
    ELSE handleProcessedResponse(h, rs)

NilResponse == [nil |-> "*http.Response"]

\* JSResponseHook.After: synchronous, or the select on the channels of AfterAsync
JSResponseHookAfter(h, rs) ==
    IF ~h.IsAsync THEN {ResponseExecuteScript(h, rs)}
    ELSE IF Takes(h.run) > h.Timeout THEN {[resp |-> rs, err |-> ErrTimeout]}
    ELSE {ResponseExecuteScript(h, rs)} \cup
         (IF ResponseExecuteScript(h, rs).err # NoErr
          THEN {[resp |-> NilResponse, err |-> NoErr]}
          ELSE {})

FailingScripts == {"syntax", "throwAtLoad", "nofunc", "throw", "retString", "retArrayBody"}

RequestHooks ==
    {CreateHookFromDefinition(def).hook :
        def \in {JS(s) : s \in FailingScripts \cup {"setA"}}
                \cup {JSAsync(s, SleepTime + 1) : s \in {"syntax", "nofunc", "setA"}}}

DirectRequests ==
    {[Method |-> "POST", URL |-> "http://h/d", Header |-> NoHeaders, Body |-> b] :
        b \in {"{id:1}", "{id: 1}", "oops", NilBody}}

Statuses ==
    {GoInt(200), Int64(201), Int64(404), Float(201, FALSE), Float(404, TRUE),
     NotANumber("string"), NotANumber("undefined")}

ResponseHooks ==
    {NewJSResponseHookFromString(run, GoInt(200), async, SleepTime + 1) :
        run \in FailingScripts \ {"retArrayBody"}, async \in BOOLEAN}
    \cup {NewJSResponseHookFromString("ret", st, async, SleepTime + 1) :
            st \in Statuses, async \in BOOLEAN}

DirectResponses ==
    {[StatusCode |-> c, Header |-> NoHeaders, Body |-> b] :
        c \in {200, 500}, b \in {"ok", NilBody}}

\* hook.Before(req), called by a host
CallBefore(h, r) ==
    /\ trace = << >>
    /\ \E out \in JSHookBeforeSelect(h, r) :
          trace' = Append(trace, [op |-> "Before", hook |-> h, arg |-> r, ret |-> out])
    /\ UNCHANGED <<clientVars, templates, funcs, renderCache, heap, asyncVars>>

\* hook.After(resp), called by a host
CallAfter(h, rs) ==
    /\ trace = << >>
    /\ \E out \in JSResponseHookAfter(h, rs) :
          trace' = Append(trace, [op |-> "After", hook |-> h, arg |-> rs, ret |-> out])
    /\ UNCHANGED <<clientVars, templates, funcs, renderCache, heap, asyncVars>>

JSNext ==
    \/ \E h \in RequestHooks, r \in DirectRequests : CallBefore(h, r)
    \/ \E h \in ResponseHooks, rs \in DirectResponses : CallAfter(h, rs)

SpecJS == Init /\ [][JSNext]_vars

\* the script of the call fails to load: a syntax error or a throw at top level
FailsToRun(c) == c.hook.run \in {"syntax", "throwAtLoad"}

\* C25: Before returns an error when the script fails to run, when it defines no
\* processRequest and the request has a body, and when processRequest throws or
\* returns something that is no object with an object body; After returns an error
\* when the script fails to run or defines no processResponse.
C25_FailingScriptIsAnError ==
    \A i \in 1..Len(trace) :
        LET c == trace[i]
        IN  /\ (c.op = "Before" /\ FailsToRun(c)) => c.ret.err # NoErr
            /\ (c.op = "Before" /\ c.arg.Body # NilBody
                  /\ c.hook.run \in {"nofunc", "throw", "retString", "retArrayBody"})
                  => c.ret.err # NoErr
            /\ (c.op = "After" /\ FailsToRun(c)) => c.ret.err # NoErr
            /\ (c.op = "After" /\ c.arg.Body # NilBody /\ c.hook.run = "nofunc")
                  => c.ret.err # NoErr

\* the calls of After in which processResponse ran and returned its object
Processed ==
    {i \in 1..Len(trace) :
        /\ trace[i].op = "After"
        /\ trace[i].hook.run = "ret"
        /\ trace[i].arg.Body # NilBody}

\* C26: when processResponse returns an object with a numeric status, the status
\* code after After is the integer part of that number, whether it was exported as
\* float64, int64 or int; with no numeric status the code is the one it was.
C26_StatusIsCoerced ==
    \A i \in Processed :
        LET c == trace[i]
        IN  /\ c.ret.err = NoErr
            /\ IF c.hook.status.t \in {"float64", "int64", "int"}
               THEN c.ret.resp.StatusCode = c.hook.status.n
               ELSE c.ret.resp.StatusCode = c.arg.StatusCode

\* a response that arrived as 200 and leaves After as the 201 the script set as an
\* integer
C26_Witness ==
    \E i \in Processed :
        /\ trace[i].hook.status = Int64(201)
        /\ trace[i].arg.StatusCode = 200
        /\ trace[i].ret.resp.StatusCode = 201

(***************************************************************************)
(* Built-in template functions: div, defaultValue, coalesce.               *)
(***************************************************************************)
MaxNum == 3
MaxArgs == 3

\* a float64: NaN, an infinity, or the float nearest to (-)n/d, zero keeping its sign
NaN == [k |-> "nan", neg |-> FALSE, n |-> 0, d |-> 1]
Inf(neg) == [k |-> "inf", neg |-> neg, n |-> 0, d |-> 1]
Fin(neg, n, d) == [k |-> "fin", neg |-> neg, n |-> n, d |-> d]

RECURSIVE GCD(_, _)
GCD(a, b) == IF b = 0 THEN a ELSE GCD(b, a % b)

\* Go's b == 0 on a float64: true of 0 and of -0
IsZero(x) == x.k = "fin" /\ x.n = 0

\* Go's a / b on float64
Quo(a, b) ==
    LET neg == (a.neg # b.neg)
    IN  IF a.k = "nan" \/ b.k = "nan" THEN NaN
        ELSE IF a.k = "inf" THEN (IF b.k = "inf" THEN NaN ELSE Inf(neg))
        ELSE IF b.k = "inf" THEN Fin(neg, 0, 1)
        ELSE IF IsZero(b) THEN (IF IsZero(a) THEN NaN ELSE Inf(neg))
        ELSE IF IsZero(a) THEN Fin(neg, 0, 1)
        ELSE LET g == GCD(a.n * b.d, a.d * b.n)
             IN  Fin(neg, (a.n * b.d) \div g, (a.d * b.n) \div g)

\* div without its test of the divisor
divUnguarded(a, b) == Quo(a, b)

\* e.funcs["div"]
div(a, b) == IF IsZero(b) THEN Fin(FALSE, 0, 1) ELSE Quo(a, b)

Floats ==
    {NaN} \cup {Inf(neg) : neg \in BOOLEAN}
    \cup {Fin(neg, n, 1) : neg \in BOOLEAN, n \in 0..MaxNum}
    \cup {Fin(neg, 1, 2) : neg \in BOOLEAN}

\* the interface{} values handed to defaultValue and coalesce, by type and literal
Nil == [t |-> "nil", v |-> ""]
Bool(lit) == [t |-> "bool", v |-> lit]
Integer(lit) == [t |-> "int", v |-> lit]

Anys == {Nil, Str(""), Str("v"), Str("w"), Integer("0"), Bool("false")}

\* e.funcs["defaultValue"]
defaultValue(val, defaultVal) == IF val = Nil THEN defaultVal ELSE val

\* a coalesce that skips nil only
RECURSIVE coalesceSkipsNil(_)
coalesceSkipsNil(values) ==
    IF values = << >> THEN Nil
    ELSE IF Head(values) # Nil THEN Head(values)
    ELSE coalesceSkipsNil(Tail(values))

\* e.funcs["coalesce"]
RECURSIVE coalesce(_)
coalesce(values) ==
    IF values = << >> THEN Nil
    ELSE IF Head(values) # Nil /\ Head(values) # Str("") THEN Head(values)
    ELSE coalesce(Tail(values))

\* one call of a built-in function by a template
CallBuiltin(fn, args, ret) ==
    /\ trace = << >>
    /\ trace' = Append(trace, [op |-> fn, args |-> args, ret |-> ret])
    /\ UNCHANGED <<clientVars, templates, funcs, renderCache, heap, asyncVars>>

BuiltinsNext ==
    \/ \E a \in Floats, b \in Floats : CallBuiltin("div", <<a, b>>, div(a, b))
    \/ \E val \in Anys, def \in Anys :
          CallBuiltin("defaultValue", <<val, def>>, defaultValue(val, def))
    \/ \E values \in SeqsUpTo(Anys, MaxArgs) :
          CallBuiltin("coalesce", values, coalesce(values))

SpecBuiltins == Init /\ [][BuiltinsNext]_vars

CallsOf(fn) == {i \in 1..Len(trace) : trace[i].op = fn}

\* C27: div(x, 0) is 0 for every x, and for a divisor that is not 0 div(a, b) is
\* the quotient a / b: q with q * b = a for finite numbers, and the float64
\* quotient where NaN or an infinity is involved.
C27_DivByZeroIsZero ==
    \A i \in CallsOf("div") :
        LET a == trace[i].args[1]
            b == trace[i].args[2]
            q == trace[i].ret
        IN  IF b.k = "fin" /\ b.n = 0 THEN q = Fin(FALSE, 0, 1)
            ELSE IF a.k = "fin" /\ b.k = "fin"
            THEN /\ q.k = "fin"
                 /\ q.n * b.n * a.d = a.n * q.d * b.d
                 /\ (q.neg # b.neg) = a.neg
            ELSE q = Quo(a, b)

\* a finite non-zero number and an infinity were each divided by zero, and a
\* division by a non-zero number was made
C27_Witness ==
    \E i \in CallsOf("div") :
        /\ trace[i].args[2] \in {Fin(FALSE, 0, 1), Fin(TRUE, 0, 1)}
        /\ trace[i].args[1] \in {Fin(FALSE, MaxNum - 1, 1), Inf(TRUE), NaN}
        /\ trace[i].ret = Fin(FALSE, 0, 1)

\* the arguments a coalesce passes over
Blank(v) == v = Nil \/ v = Str("")

\* C28: coalesce returns its first argument that is neither nil nor the empty
\* string, and nil when there is none; defaultValue returns the default for nil
\* and any other value, the empty string and other falsy values included,
\* unchanged.
C28_CoalesceSkipsNilAndEmpty ==
    /\ \A i \in CallsOf("coalesce") :
          LET values == trace[i].args
              keep == {j \in 1..Len(values) : ~Blank(values[j])}
          IN  IF keep = {} THEN trace[i].ret = Nil
              ELSE \E j \in keep : /\ \A l \in keep : j <= l
                                   /\ trace[i].ret = values[j]
    /\ \A i \in CallsOf("defaultValue") :
          trace[i].ret = IF trace[i].args[1] = Nil THEN trace[i].args[2]
                         ELSE trace[i].args[1]

\* coalesce(nil, "", "v") returned "v"
C28_Witness ==
    \E i \in CallsOf("coalesce") :
        /\ trace[i].args = <<Nil, Str(""), Str("v")>>
        /\ trace[i].ret = Str("v")

(***************************************************************************)
(* The request body over one execution.                                    *)
(***************************************************************************)
\* C29: once a request has been dispatched its body still reads as the bytes that
\* were sent, with and without retry, and a call that stores into the cache
\* computes the store key from the same bytes as its lookup key, so the two keys
\* are equal.
C29_BodyStaysReadable ==
    \A p \in Calls :
        (Started(p) /\ Dispatched(p)) =>
            /\ req[p].Body = Events(p, "attempt")[1].body
            /\ (LookedUp(p) /\ Len(Events(p, "save")) > 0)
                  => Events(p, "save")[1].key = Lookup(p).key

(***************************************************************************)
(* getFromCache and saveToCache step by step under cacheMutex.             *)
(***************************************************************************)
MaxLockOps == 2

\* where a goroutine holds cacheMutex for reading, and where for writing
ReadHeld == {"get.lookup", "get.delete", "get.return"}
WriteHeld == {"save.insert", "save.return"}

Holds(p) ==
    IF pc[p] \in ReadHeld THEN "read" ELSE IF pc[p] \in WriteHeld THEN "write" ELSE "none"

LockRequests == {[URL |-> "http://h/a", Body |-> b] : b \in {"{id:1}"}}

LockUnchanged ==
    /\ UNCHANGED <<headers, beforeHook, afterHook, hdr, tmplDef, data, resp, err, retry,
                   stored>>
    /\ UNCHANGED engineVars
    /\ UNCHANGED asyncVars

\* getFromCache: c.cacheMutex.RLock()
RLock(p, r) ==
    /\ pc[p] = "idle"
    /\ Len(log[p]) < MaxLockOps
    /\ \A q \in Calls : pc[q] \notin WriteHeld
    /\ req' = [req EXCEPT ![p] = r]
    /\ pc' = [pc EXCEPT ![p] = "get.lookup"]
    /\ UNCHANGED <<cache, now, log>>
    /\ LockUnchanged

\* getFromCache: cached, ok := c.cache[key] and the test of ExpireTime
MapLookup(p) ==
    /\ pc[p] = "get.lookup"
    /\ LET key == generateCacheKey(req[p].URL, req[p].Body)
           fresh == key \in DOMAIN cache /\ now < cache[key].ExpireTime
       IN  /\ log' = [log EXCEPT ![p] =
                         Append(@, [ev |-> "lookup", key |-> key, lock |-> Holds(p),
                                    found |-> fresh])]
           /\ pc' = [pc EXCEPT ![p] = IF key \in DOMAIN cache /\ ~fresh
                                      THEN "get.delete" ELSE "get.return"]
    /\ UNCHANGED <<cache, now, req>>
    /\ LockUnchanged

\* getFromCache: delete(c.cache, key) of the stale entry
MapDelete(p) ==
    /\ pc[p] = "get.delete"
    /\ LET key == generateCacheKey(req[p].URL, req[p].Body)
       IN  /\ cache' = DeleteKey(cache, key)
           /\ log' = [log EXCEPT ![p] =
                         Append(@, [ev |-> "evict", key |-> key, lock |-> Holds(p),
                                    found |-> FALSE])]
    /\ pc' = [pc EXCEPT ![p] = "get.return"]
    /\ UNCHANGED <<now, req>>
    /\ LockUnchanged

\* getFromCache: the deferred c.cacheMutex.RUnlock()
RUnlock(p) ==
    /\ pc[p] = "get.return"
    /\ pc' = [pc EXCEPT ![p] = "idle"]
    /\ UNCHANGED <<cache, now, req, log>>
    /\ LockUnchanged

\* saveToCache: c.cacheMutex.Lock()
Lock(p, r) ==
    /\ pc[p] = "idle"
    /\ Len(log[p]) < MaxLockOps
    /\ \A q \in Calls : pc[q] \notin ReadHeld \cup WriteHeld
    /\ req' = [req EXCEPT ![p] = r]
    /\ pc' = [pc EXCEPT ![p] = "save.insert"]
    /\ UNCHANGED <<cache, now, log>>
    /\ LockUnchanged

\* saveToCache: c.cache[key] = &CachedResponse{...} for a 2xx response
MapInsert(p, status, duration) ==
    /\ pc[p] = "save.insert"
    /\ LET key == generateCacheKey(req[p].URL, req[p].Body)
       IN  /\ cache' = saveToCache(cache, key, p, status, ServerBody, now + duration)
           /\ log' = [log EXCEPT ![p] =
                         Append(@, [ev |-> IF status >= 200 /\ status < 300
                                           THEN "insert" ELSE "skip",
                                    key |-> key, lock |-> Holds(p), found |-> FALSE])]
    /\ pc' = [pc EXCEPT ![p] = "save.return"]
    /\ UNCHANGED <<now, req>>
    /\ LockUnchanged

\* saveToCache: the deferred c.cacheMutex.Unlock()
Unlock(p) ==
    /\ pc[p] = "save.return"
    /\ pc' = [pc EXCEPT ![p] = "idle"]
    /\ UNCHANGED <<cache, now, req, log>>
    /\ LockUnchanged

LockNext ==
    \/ Tick
    \/ \E p \in Calls, r \in LockRequests : RLock(p, r)
    \/ \E p \in Calls : MapLookup(p)
    \/ \E p \in Calls : MapDelete(p)
    \/ \E p \in Calls : RUnlock(p)
    \/ \E p \in Calls, r \in LockRequests : Lock(p, r)
    \/ \E p \in Calls, status \in {200, 500}, duration \in 1..MaxTime :
          MapInsert(p, status, duration)
    \/ \E p \in Calls : Unlock(p)

SpecLock == Init /\ [][LockNext]_vars

\* C30: every insert into the cache map and every eviction from it was made by a
\* goroutine holding the write lock, and no goroutine is about to delete from the
\* map while another one, in under the read lock too, is reading or deleting.
C30_MutationsHoldTheWriteLock ==
    /\ \A p \in Calls : \A i \in 1..Len(log[p]) :
          log[p][i].ev \in {"insert", "evict"} => log[p][i].lock = "write"
    /\ \A p \in Calls, q \in Calls :
          (p # q /\ pc[p] = "get.delete") => pc[q] \notin {"get.lookup", "get.delete"}

(***************************************************************************)
(* The attempts of one doWithRetry.                                        *)
(***************************************************************************)
\* C31: the attempts of a call come one after the other, attempt k + 1 only once
\* attempt k has come back with an error, and each is made with a clone whose
\* body is the whole body the request was built with, whatever the attempts
\* before it read.
C31_AttemptsAreIndependent ==
    (Started(1) /\ UseRetry(tmplDef[1])) =>
        LET as == Events(1, "attempt")
            built == Events(1, "built")[1].req
        IN  \A k \in 1..Len(as) :
                /\ as[k].n = k - 1
                /\ as[k].body = built.Body
                /\ as[k].url = built.URL
                /\ k < Len(as) => as[k].err # NoErr

\* a second attempt was made after the first one broke off with the body read
C31_Witness ==
    /\ Started(1) /\ UseRetry(tmplDef[1])
    /\ Len(Events(1, "attempt")) >= 2
    /\ Events(1, "attempt")[1].err = ErrReset
    /\ Events(1, "attempt")[2].body = Events(1, "built")[1].req.Body
    /\ Events(1, "attempt")[2].body # ""

(***************************************************************************)
(* An asynchronous hook step by step: the goroutine and the select.        *)
(***************************************************************************)
\* make(chan T, 1)
EmptyChan == [buf |-> << >>, closed |-> FALSE]

\* a receive can proceed on a channel that holds a value or is closed
Ready(ch) == ch.buf # << >> \/ ch.closed

AsyncRequestHooks ==
    {CreateHookFromDefinition(def).hook :
        def \in {JSAsync("syntax", SleepTime + 1), JSAsync("throw", SleepTime + 1),
                 JSAsync("setA", SleepTime + 1), JSAsync("sleep", AfterTimeout)}}

AsyncResponseHooks ==
    {NewJSResponseHookFromString("nofunc", GoInt(200), TRUE, SleepTime + 1),
     NewJSResponseHookFromString("ret", Int64(201), TRUE, SleepTime + 1),
     NewJSResponseHookFromString("sleep", GoInt(200), TRUE, AfterTimeout)}

\* the script of goroutine g run on its argument: the value it hands over and its error
ScriptResult(g) ==
    IF g.kind = "Before"
    THEN [val |-> executeScript(g.hook, g.arg).req, err |-> executeScript(g.hook, g.arg).err]
    ELSE [val |-> ResponseExecuteScript(g.hook, g.arg).resp,
          err |-> ResponseExecuteScript(g.hook, g.arg).err]

SelectUnchanged ==
    /\ UNCHANGED <<headers, beforeHook, afterHook, cache, hdr, tmplDef, data, req, resp,
                   err, retry, log, stored>>
    /\ UNCHANGED <<templates, funcs, renderCache, heap>>

\* Before or After of an asynchronous hook up to its select: BeforeAsync or
\* AfterAsync has made the two channels and started the goroutine
StartAsync(kind, h, arg) ==
    /\ pc[1] = "idle" /\ bg = << >> /\ trace = << >>
    /\ bg' = <<[kind |-> kind, hook |-> h, arg |-> arg, at |-> "run", since |-> now,
                valChan |-> EmptyChan, errChan |-> EmptyChan]>>
    /\ pc' = [pc EXCEPT ![1] = "select"]
    /\ UNCHANGED <<now, trace>>
    /\ SelectUnchanged

\* the goroutine: executeScript returns
GoRun ==
    /\ bg # << >> /\ bg[1].at = "run"
    /\ now >= bg[1].since + Takes(bg[1].hook.run)
    /\ bg' = [bg EXCEPT ![1].at = "send"]
    /\ UNCHANGED <<now, pc, trace>>
    /\ SelectUnchanged

\* the goroutine: errChan <- err on a failure, reqChan <- modifiedReq otherwise
GoSend ==
    /\ bg # << >> /\ bg[1].at = "send"
    /\ bg' = IF ScriptResult(bg[1]).err # NoErr
             THEN [bg EXCEPT ![1].at = "closeVal",
                             ![1].errChan.buf = <<ScriptResult(bg[1]).err>>]
             ELSE [bg EXCEPT ![1].at = "closeVal",
                             ![1].valChan.buf = <<ScriptResult(bg[1]).val>>]
    /\ UNCHANGED <<now, pc, trace>>
    /\ SelectUnchanged

\* the goroutine: close(reqChan)
GoCloseVal ==
    /\ bg # << >> /\ bg[1].at = "closeVal"
    /\ bg' = [bg EXCEPT ![1].at = "closeErr", ![1].valChan.closed = TRUE]
    /\ UNCHANGED <<now, pc, trace>>
    /\ SelectUnchanged

\* the goroutine: close(errChan)
GoCloseErr ==
    /\ bg # << >> /\ bg[1].at = "closeErr"
    /\ bg' = [bg EXCEPT ![1].at = "done", ![1].errChan.closed = TRUE]
    /\ UNCHANGED <<now, pc, trace>>
    /\ SelectUnchanged

SelectReturns(case, val, e) ==
    /\ trace' = Append(trace, [op |-> bg[1].kind, hook |-> bg[1].hook, arg |-> bg[1].arg,
                               case |-> case, ret |-> [val |-> val, err |-> e],
                               timer |-> now >= bg[1].since + bg[1].hook.Timeout])
    /\ pc' = [pc EXCEPT ![1] = "done"]
    /\ UNCHANGED <<now, bg>>
    /\ SelectUnchanged

\* select, case modifiedReq := <-reqChan: return modifiedReq, nil
SelectVal ==
    /\ pc[1] = "select" /\ Ready(bg[1].valChan)
    /\ SelectReturns("val",
               IF bg[1].valChan.buf # << >> THEN bg[1].valChan.buf[1]
               ELSE IF bg[1].kind = "Before" THEN NilRequest ELSE NilResponse,
               NoErr)

\* select, case err := <-errChan: return req, err
SelectErr ==
    /\ pc[1] = "select" /\ Ready(bg[1].errChan)
    /\ SelectReturns("err", ScriptResult(bg[1]).val,
               IF bg[1].errChan.buf # << >> THEN bg[1].errChan.buf[1] ELSE NoErr)

\* select, case <-time.After(h.Timeout): return req, timeout error
SelectTimer ==
    /\ pc[1] = "select" /\ now >= bg[1].since + bg[1].hook.Timeout
    /\ SelectReturns("timer", bg[1].arg, ErrTimeout)

SelectNext ==
    \/ Tick
    \/ \E h \in AsyncRequestHooks, r \in DirectRequests : StartAsync("Before", h, r)
    \/ \E h \in AsyncResponseHooks, rs \in DirectResponses : StartAsync("After", h, rs)
    \/ GoRun
    \/ GoSend
    \/ GoCloseVal
    \/ GoCloseErr
    \/ SelectVal
    \/ SelectErr
    \/ SelectTimer

SpecSelect == Init /\ [][SelectNext]_vars

\* the script of the call came to its end with an error before the timer was due
FailedInTime(c) ==
    /\ ~c.timer
    /\ IF c.op = "Before" THEN executeScript(c.hook, c.arg).err # NoErr
       ELSE ResponseExecuteScript(c.hook, c.arg).err # NoErr

\* C32: when the script of an asynchronous hook fails before the timeout, Before
\* (After) returns an error whatever the order of the goroutine's send and closes
\* and the caller's select; and a call that returns no error returns the request
\* (response) the script produced, never nil and never the unprocessed one of a
\* failed script.
C32_AsyncFailureIsAnError ==
    \A i \in 1..Len(trace) :
        LET c == trace[i]
        IN  /\ FailedInTime(c) => c.ret.err # NoErr
            /\ c.ret.err = NoErr =>
                  /\ c.ret.val \notin {NilRequest, NilResponse}
                  /\ ~FailedInTime(c)

(***************************************************************************)
(* The field-transform hook on a body with nothing to rename.              *)
(***************************************************************************)
\* C33: for a POST or PUT request whose body is a JSON object without the key to
\* rename, the body after Before is the body before, member for member in the
\* same order and with the same literals: nothing is re-encoded.
C33_NothingToRenameIsANoOp ==
    \A n \in 1..Len(trace) :
        ( /\ trace[n].op = "FieldTransformHook.Before"
          /\ trace[n].arg.Method \in {"POST", "PUT"}
          /\ trace[n].arg.Body.kind = "object"
          /\ "user" \notin KeysOf(trace[n].arg.Body) )
        => /\ trace[n].ret.err = NoErr
           /\ trace[n].ret.req.Body = trace[n].arg.Body

(***************************************************************************)
(* ExecuteHookWithTimeout step by step. Time is counted in seconds; a step *)
(* that can be taken is taken before the clock moves on.                   *)
(***************************************************************************)
DefaultTimeoutSeconds == 10

\* an errCh without a buffer
ErrChUnbuffered == Len(<< >>)

\* errCh := make(chan error, 1)
ErrChCap == 1

ErrHookTimedOut == <<"hook execution timed out">>

\* timeoutSeconds, with the default for a value that is not positive
TimeoutOf(t) == IF t <= 0 THEN DefaultTimeoutSeconds ELSE t

HookUnchanged ==
    /\ UNCHANGED <<headers, beforeHook, afterHook, cache, hdr, tmplDef, data, req, resp,
                   err, retry, log, stored>>
    /\ UNCHANGED <<templates, funcs, renderCache, heap>>

\* ExecuteHookWithTimeout up to its select: the context with its deadline, errCh
\* and the goroutine that runs hook, which takes dur seconds and returns e
StartHook(t, dur, e) ==
    /\ pc[1] = "idle" /\ bg = << >> /\ trace = << >>
    /\ bg' = <<[at |-> "run", since |-> now, t |-> t, dur |-> dur, e |-> e,
                deadline |-> now + TimeoutOf(t), errCh |-> << >>]>>
    /\ pc' = [pc EXCEPT ![1] = "wait"]
    /\ UNCHANGED <<now, trace>>
    /\ HookUnchanged

\* the goroutine: hook() returns
HookReturns ==
    /\ bg # << >> /\ bg[1].at = "run"
    /\ now >= bg[1].since + bg[1].dur
    /\ bg' = [bg EXCEPT ![1].at = "send"]
    /\ UNCHANGED <<now, pc, trace>>
    /\ HookUnchanged

\* a send on errCh can proceed: there is room in the buffer, or the caller is
\* waiting in its select to receive
CanSend == Len(bg[1].errCh) < ErrChCap \/ pc[1] = "wait"

\* the goroutine: errCh <- (the result of hook), after which it ends
HookSend ==
    /\ bg # << >> /\ bg[1].at = "send"
    /\ CanSend
    /\ bg' = [bg EXCEPT ![1].at = "done", ![1].errCh = Append(@, bg[1].e)]
    /\ UNCHANGED <<now, pc, trace>>
    /\ HookUnchanged

HookReturn(e) ==
    /\ trace' = Append(trace, [op |-> "ExecuteHookWithTimeout", t |-> bg[1].t,
                               dur |-> bg[1].dur, e |-> bg[1].e, since |-> bg[1].since,
                               deadline |-> bg[1].deadline, at |-> now, ret |-> e])
    /\ pc' = [pc EXCEPT ![1] = "done"]
    /\ UNCHANGED now
    /\ HookUnchanged

\* select, case err := <-errCh
ReceiveErr ==
    /\ pc[1] = "wait" /\ bg[1].errCh # << >>
    /\ bg' = [bg EXCEPT ![1].errCh = Tail(@)]
    /\ HookReturn(bg[1].errCh[1])

\* select, case <-ctx.Done(), of a context whose parent is never done
ReceiveDone ==
    /\ pc[1] = "wait" /\ now >= bg[1].deadline
    /\ UNCHANGED bg
    /\ HookReturn(ErrHookTimedOut)

\* a step that waits for nothing
HookStepReady ==
    /\ bg # << >>
    /\ \/ bg[1].at = "run" /\ now >= bg[1].since + bg[1].dur
       \/ bg[1].at = "send" /\ CanSend
       \/ pc[1] = "wait" /\ (bg[1].errCh # << >> \/ now >= bg[1].deadline)

HookTimeouts == {0 - 1, 0, 1, 2}

HookErrors == {NoErr, <<"hook refused">>}

HookNext ==
    \/ ~HookStepReady /\ Tick
    \/ \E t \in HookTimeouts, dur \in 0..MaxTime, e \in HookErrors : StartHook(t, dur, e)
    \/ HookReturns
    \/ HookSend
    \/ ReceiveErr
    \/ ReceiveDone

SpecHookTimeout == Init /\ [][HookNext]_vars

TemplateID(t) == <<"template_0", "template_1", "template_2", "template_3">>[t + 1]

NameUnchanged ==
    /\ UNCHANGED <<headers, beforeHook, afterHook, cache, hdr, now, tmplDef, data, req,
                   resp, err, retry, stored>>
    /\ UNCHANGED <<funcs, heap, trace>>
    /\ UNCHANGED asyncVars

\* ExecuteTemplateJSON: templateID := ... for a call with body template src and
\* the data object o
NameCall(p, src, o) ==
    /\ pc[p] = "idle" /\ log[p] = << >>
    /\ log' = [log EXCEPT ![p] = <<[ev |-> "named", templateID |-> TemplateID(now),
                                    src |-> src, obj |-> o, out |-> ""]>>]
    /\ pc' = [pc EXCEPT ![p] = "add"]
    /\ UNCHANGED <<templates, renderCache>>
    /\ NameUnchanged

\* ExecuteTemplateJSON: c.templateEngine.AddTemplate(templateID, bodyTemplate)
AddBodyTemplate(p) ==
    /\ pc[p] = "add"
    /\ LET id == log[p][1].templateID
           parsed == Parse(log[p][1].src, funcs)
       IN  /\ templates' = [n \in (DOMAIN templates) \cup {id} |->
                               IF n = id THEN parsed.tmpl ELSE templates[n]]
           /\ renderCache' = DeleteKey(renderCache, id)
    /\ pc' = [pc EXCEPT ![p] = "render"]
    /\ UNCHANGED log
    /\ NameUnchanged

\* ExecuteTemplateJSON: c.templateEngine.RenderJSONTemplate(templateID, data)
RenderBody(p) ==
    /\ pc[p] = "render"
    /\ LET c == log[p][1]
           r == RenderByName(templates, renderCache, c.templateID, c.obj, heap[c.obj])
       IN  /\ renderCache' = r.cache
           /\ log' = [log EXCEPT ![p] =
                         Append(@, [ev |-> "rendered", templateID |-> c.templateID,
                                    src |-> c.src, obj |-> c.obj, out |-> r.ret])]
    /\ pc' = [pc EXCEPT ![p] = "done"]
    /\ UNCHANGED templates
    /\ NameUnchanged

NameNext ==
    \/ Tick
    \/ \E p \in Calls, src \in {BodyTemplate, Lit("{id:2}")}, o \in Objects :
          NameCall(p, src, o)
    \/ \E p \in Calls : AddBodyTemplate(p)
    \/ \E p \in Calls : RenderBody(p)

SpecNames == Init /\ [][NameNext]_vars

\* C35: two calls on the client, one after the other or at the same time, never
\* have the same template name, and the body a call renders is the rendering of
\* its own body template on its own data.
C35_FreshNamePerCall ==
    /\ \A p \in Calls, q \in Calls :
          (p # q /\ log[p] # << >> /\ log[q] # << >>)
              => log[p][1].templateID # log[q][1].templateID
    /\ \A p \in Calls :
          Len(log[p]) = 2 => log[p][2].out = Execute(log[p][1].src, heap[log[p][1].obj])

(***************************************************************************)
(* The body of a response as a reader, through processResponseWithJS.      *)
(***************************************************************************)
\* io.NopCloser(bytes.NewBuffer(b)): a body nobody has read yet
NewBody(b) == [bytes |-> b, at |-> "start"]

\* io.ReadAll(resp.Body): what is left to read
ReadAll(body) == IF body.at = "start" THEN body.bytes ELSE ""

\* the body after io.ReadAll and Close
Drained(body) == [body EXCEPT !.at = "closed"]

\* JSResponseHook.setResponseBody: a string is taken as it is, anything else goes
\* through json.Marshal, which refuses NaN; the new body is set only on success
setResponseBody(h, rs) ==
    CASE h.run = "retBodyString" -> [resp |-> [rs EXCEPT !.Body = NewBody("new")],
                                     err |-> NoErr]
      [] h.run = "retBodyNumber" -> [resp |-> [rs EXCEPT !.Body = NewBody("1")],
                                     err |-> NoErr]
      [] OTHER -> [resp |-> rs, err |-> <<"marshal processed body failed">>]

\* JSResponseHook.handleProcessedResponse with the body: rs has been read and
\* closed, originalBody is what was read
handleProcessedResponseBody(h, rs, originalBody) ==
    IF h.run = "retString"
    THEN [resp |-> [rs EXCEPT !.Body = NewBody(originalBody)],
          err |-> <<"cannot parse processed response">>]
    ELSE LET coerced == handleProcessedResponse(h, rs).resp
         IN  IF h.run \in {"retBodyString", "retBodyNumber", "retBodyNaN"}
             THEN setResponseBody(h, coerced)
             ELSE [resp |-> [coerced EXCEPT !.Body = NewBody(originalBody)],
                   err |-> NoErr]

\* JSResponseHook.processResponseWithJS
processResponseWithJS(h, rs) ==
    LET bodyBytes == ReadAll(rs.Body)
        restored == [rs EXCEPT !.Body = NewBody(bodyBytes)]
    IN  IF h.run = "nofunc"
        THEN [resp |-> restored, err |-> <<"processResponse not found">>]
        ELSE IF h.run = "throw"
        THEN [resp |-> restored, err |-> <<"processResponse failed", "thrown">>]
        ELSE handleProcessedResponseBody(h, [rs EXCEPT !.Body = Drained(@)], bodyBytes)

\* what the scripts do once they are loaded
BodyScripts ==
    {"nofunc", "throw", "retString", "ret", "retBodyString", "retBodyNumber", "retBodyNaN"}

BodyHooks ==
    {NewJSResponseHookFromString(run, st, FALSE, SleepTime + 1) :
        run \in BodyScripts, st \in {Int64(201), NotANumber("undefined")}}

BodyResponses ==
    {[StatusCode |-> c, Header |-> NoHeaders, Body |-> NewBody(b)] :
        c \in {200, 500}, b \in {"ok", "{id:1}"}}

\* the response the next hook of a chain is given: the one the last hook returned,
\* and none once a hook has failed
ChainResponses ==
    IF trace = << >> THEN BodyResponses
    ELSE IF trace[Len(trace)].ret.err # NoErr THEN {}
    ELSE {trace[Len(trace)].ret.resp}

\* processResponseWithJS(vm, resp) of a hook in a chain of after-hooks
CallProcessResponse(h, rs) ==
    /\ Len(trace) < MaxHooks
    /\ trace' = Append(trace, [op |-> "processResponseWithJS", hook |-> h, arg |-> rs,
                               ret |-> processResponseWithJS(h, rs)])
    /\ UNCHANGED <<clientVars, templates, funcs, renderCache, heap, asyncVars>>

BodyNext == \E h \in BodyHooks, rs \in ChainResponses : CallProcessResponse(h, rs)

SpecBody == Init /\ [][BodyNext]_vars

\* C36: when a hook fails at or after the processResponse step, the response it
\* hands back with the error can still be read and yields the bytes the response
\* held when the hook was given it.
C36_FailedHookLeavesBodyReadable ==
    \A i \in 1..Len(trace) :
        (trace[i].op = "processResponseWithJS" /\ trace[i].ret.err # NoErr)
            => /\ trace[i].ret.resp.Body.at = "start"
               /\ ReadAll(trace[i].ret.resp.Body) = ReadAll(trace[i].arg.Body)

(***************************************************************************)
(* ParseAndRenderJSON: a temporary template added, rendered and removed.   *)
(***************************************************************************)
\* where the runtime puts the templateStr of a call; an address is free again once
\* the call has returned, so a later call can be given the same one
Addresses == {"0xc1", "0xc2"}

\* fmt.Sprintf("temp_template_%p", &templateStr)
TempName(addr) == "temp_template_" \o addr

\* Engine.ParseAndRenderJSON(templateStr, data): AddTemplate, RenderJSONTemplate and
\* RemoveTemplate of the temporary name, one after the other
ParseAndRenderJSON(addr, src, o) ==
    /\ Len(trace) < MaxOps
    /\ LET tmplName == TempName(addr)
           parsed == Parse(src, funcs)
           added == [n \in (DOMAIN templates) \cup {tmplName} |->
                        IF n = tmplName THEN parsed.tmpl ELSE templates[n]]
           r == RenderByName(added, DeleteKey(renderCache, tmplName), tmplName, o, heap[o])
       IN  IF parsed.err # NoErr
           THEN /\ UNCHANGED <<templates, renderCache>>
                /\ trace' = Append(trace,
                      [op |-> "ParseAndRenderJSON", name |-> tmplName, src |-> src,
                       obj |-> o, data |-> heap[o], ret |-> "", err |-> parsed.err,
                       before |-> [templates |-> templates, cache |-> renderCache],
                       after |-> [templates |-> templates, cache |-> renderCache]])
           ELSE /\ templates' = [n \in (DOMAIN added) \ {tmplName} |-> added[n]]
                /\ renderCache' = DeleteKey(r.cache, tmplName)
                /\ trace' = Append(trace,
                      [op |-> "ParseAndRenderJSON", name |-> tmplName, src |-> src,
                       obj |-> o, data |-> heap[o], ret |-> r.ret, err |-> r.err,
                       before |-> [templates |-> templates, cache |-> renderCache],
                       after |-> [templates |-> templates', cache |-> renderCache']])
    /\ UNCHANGED <<clientVars, asyncVars, funcs, heap>>

TempNext ==
    \/ \E a \in Addresses, src \in RenderSources \cup {Calling("nope")}, o \in Objects :
          ParseAndRenderJSON(a, src, o)
    \/ \E src \in RenderSources : AddTemplate("t", src)
    \/ \E o \in Objects : CallRenderJSONTemplate("t", o)

SpecTemp == Init /\ [][TempNext]_vars

\* C37: a call of ParseAndRenderJSON, whether it succeeds or fails, leaves the
\* engine's templates and its render cache as they were before the call, and a
\* call that succeeds returns the rendering of its own template string, never one
\* cached for an earlier temporary template.
C37_ParseAndRenderLeavesEngine ==
    \A i \in 1..Len(trace) :
        trace[i].op = "ParseAndRenderJSON"
            => /\ trace[i].after = trace[i].before
               /\ trace[i].err = NoErr => trace[i].ret = Execute(trace[i].src, trace[i].data)

(***************************************************************************)
(* Global after-hooks on the network path and on a cache hit.              *)
(***************************************************************************)
TwiceTemplates ==
    {Template("POST", "/a", << >>, << >>, Caching(1, Lit("")), r) :
        r \in {NoRetry, Retry(1, 1, 1)}}

TwiceNext ==
    \/ \E kind \in {"wrap", "setA"} : NoCallYet /\ AddAfterHook(kind)
    \/ \E p \in Calls, def \in TwiceTemplates :
          NoneInFlight /\ Begin(p, def, [id |-> "1"])
    \/ \E p \in Calls : CacheLookup(p)
    \/ \E p \in Calls, out \in {Response(200), Response(500)} : Send(p, out)
    \/ \E p \in Calls, out \in {Response(200), Response(500)} : RetryAttempt(p, out)
    \/ \E p \in Calls : AfterHooks(p)

SpecTwice == Init /\ [][TwiceNext]_vars

\* the server's body with the wrapping hook applied n times
RECURSIVE Wrapped(_)
Wrapped(n) == IF n = 0 THEN ServerBody ELSE "[" \o Wrapped(n - 1) \o "]"

\* the calls that have handed a response back
Answered(p) == pc[p] = "done" /\ log[p] # << >> /\ err[p] = NoErr

\* C38: the body of every response a call hands back, from the network or from
\* the cache, is the server's body with each global after-hook applied to it
\* exactly once.
C38_AfterHooksApplyOnce ==
    \A p \in Calls :
        Answered(p) =>
            resp[p].Body = Wrapped(Cardinality({i \in DOMAIN afterHook : afterHook[i] = "wrap"}))

(***************************************************************************)
(* Retry next to hooks and the cache: what an answered attempt ends.       *)
(***************************************************************************)
StatusTemplates ==
    {Template("POST", "/a", bh, << >>, c, Retry(n, 1, 1)) :
        bh \in {<< >>, <<JS("setA")>>},
        c \in {NoCaching, Caching(1, Lit(""))},
        n \in 1..MaxTries}

StatusNext ==
    \/ NoCallYet /\ AddBeforeHook("setA")
    \/ \E def \in StatusTemplates : Begin(1, def, [id |-> "1"])
    \/ CacheLookup(1)
    \/ \E out \in RetryOutcomes : RetryAttempt(1, out)
    \/ AfterHooks(1)

SpecStatus == Init /\ [][StatusNext]_vars

\* the steps of a call that belong to the stages before dispatch
BeforeDispatch == {"before", "built", "lookup"}

\* C39: an attempt answered with a response, whatever its status, is the last
\* attempt and no sleep follows it; and once the first attempt has been made no
\* before-hook and no cache lookup runs again, so each before-hook runs once and
\* the cache is looked up at most once however many attempts there are.
C39_OnlyTransportErrorsRetry ==
    (Started(1) /\ UseRetry(tmplDef[1])) =>
        /\ \A i \in 1..Len(log[1]) :
              log[1][i].ev = "attempt" =>
                  \A j \in (i + 1)..Len(log[1]) :
                      /\ log[1][j].ev \notin BeforeDispatch
                      /\ log[1][i].err = NoErr => log[1][j].ev \notin {"attempt", "sleep"}
        /\ Len(Events(1, "lookup")) <= 1
        /\ Len(Events(1, "before")) <= Len(beforeHook) + Len(tmplDef[1].BeforeHooks)

\* a 500 answered on the second attempt, after a transport error and a sleep, with
\* the before-hooks and the cache lookup done once: the 500 is what the call returns
C39_Witness ==
    /\ pc[1] = "done" /\ UseRetry(tmplDef[1]) /\ tmplDef[1].Retry.MaxAttempts = MaxTries
    /\ Len(Events(1, "attempt")) = 2
    /\ Events(1, "attempt")[1].err = ErrReset
    /\ Events(1, "attempt")[2].status = 500
    /\ Len(Events(1, "sleep")) = 1
    /\ Len(Events(1, "before")) = 2
    /\ Len(Events(1, "lookup")) = 1
    /\ err[1] = NoErr /\ resp[1].StatusCode = 500

(***************************************************************************)
(* Every way the program is driven above                                   *)
(***************************************************************************)
Next ==
    \/ HooksNext
    \/ CacheNext
    \/ SaveNext
    \/ ShareNext
    \/ ConcNext
    \/ RetryNext
    \/ DefaultsNext
    \/ ClassifyNext
    \/ RenderNext
    \/ FuncsNext
    \/ AsyncNext
    \/ FactoryNext
    \/ TransformNext
    \/ HeadersNext
    \/ JSNext
    \/ BuiltinsNext
    \/ LockNext
    \/ SelectNext
    \/ HookNext
    \/ NameNext
    \/ BodyNext
    \/ TempNext
    \/ TwiceNext
    \/ StatusNext

Spec == Init /\ [][Next]_vars

====
